---- MODULE Spec2Model ----
(***************************************************************************)
(* Model of the directory-scan and fuzzy-match code of the explorer        *)
(* scripts: src/explorer/maximized.py (collect_file_paths and              *)
(* fuzzy_match_paths), o3.py (build_report, scan, detect_duplicates),      *)
(* grok.py (scan_directory) and 4o.py (scan_directory), and of three       *)
(* scripts outside src/explorer: the parallel prompts of                   *)
(* bonus/claude_code_inside_openai_agent_sdk_4_bonus.py, the conversation  *)
(* of voice_to_claude_code.py and the round trip of tasks_to_markdown.py.  *)
(*                                                                         *)
(* Strings are sequences of one-character strings, so that they can be     *)
(* indexed, sliced and compared character by character.  A similarity      *)
(* score is the exact rational 2*M/T in lowest terms, [num, den]; Python   *)
(* computes the correctly rounded double of that rational, and for the     *)
(* small numerators and denominators of this model two such doubles        *)
(* compare exactly as the rationals do.                                    *)
(***************************************************************************)
EXTENDS Integers, Sequences, FiniteSets, TLC

VARIABLES
    \* ---- fuzzy_match_paths(query, paths, cutoff, limit) ----
    query,        \* argument: the search query
    paths,        \* argument: the list of path strings
    cutoff,       \* argument: similarity cutoff, a rational [num, den]
    limit,        \* argument: maximum number of results (any integer)
    m_pc,         \* position in fuzzy_match_paths
    m_idx,        \* number of paths the for loop has consumed
    matches,      \* the local list of (score, path) tuples
    m_result,     \* the returned list (<<>> until the return)
    m_raised,     \* TRUE iff the call ended by raising an exception
    \* ---- collect_file_paths(start_path, exclude_dirs, follow_symlinks) ----
    fs,           \* the filesystem: node id -> entry record
    start_path,   \* argument: node id of the scan root, or NoNode
    follow_symlinks, \* argument
    c_pc,         \* position in collect_file_paths
    walk_stack,   \* os.walk's stack of directories still to be listed
    collected_paths, \* the local list of collected paths
    visited_dirs, \* directories os.walk has listed (yielded as root)
    c_result,     \* the returned list
    c_raised,     \* TRUE iff the call ended by raising an exception
    c_stderr,     \* TRUE iff an error line was printed to stderr
    \* ---- build_report(root, top_n, include_dupes, follow_symlinks) (o3.py) ----
    scan_root,    \* argument root as the caller spelled it, a list of parts
    top_n,        \* argument
    include_dupes, \* argument
    r_pc,         \* position in build_report
    ext_counter,  \* scan: dict extension -> count, in insertion order
    ext_size,     \* scan: dict extension -> bytes, in insertion order
    file_sizes,   \* scan: list of (size, path)
    dir_sizes,    \* scan: dict directory -> bytes, in insertion order
    hashed,       \* the paths sha256_for_file was called on, in call order
    report,       \* the returned report (<<>> until it is built)
    r_raised,     \* TRUE iff the call ended by raising an exception
    scandir_reversed, \* the order in which os.scandir enumerates a directory
    previous,     \* the report an earlier run returned (<<>> if there is none)
    \* ---- main(root_path): scan_directory, analyze_file_data (grok.py) ----
    root_above,   \* the parts of os.path.abspath(root_path) above the tree
    g_pc,         \* position in main
    file_data,    \* the list of metadata records
    dir_count,
    file_count,
    errors,       \* the list of error messages
    analysis,     \* what analyze_file_data returned (<<>> until it has)
    \* ---- scan_directory(base_path, max_depth) (4o.py) ----
    max_depth,    \* argument
    a_pc,         \* position in scan_directory
    a_stack,      \* the active calls of the inner scan(path, depth)
    total_files,  \* report["total_files"]
    total_dirs,   \* report["total_dirs"]
    file_extensions, \* report["file_extensions"], in insertion order
    largest_files, \* report["largest_files"]
    recent_files, \* report["recent_files"]
    directory_tree, \* report["directory_tree"]: the paths that have a key in it
    listed,       \* the directories os.scandir was called on
    \* ---- ai_code_parallel_with_claude_code(ai_coding_prompts) (bonus) ----
    ai_coding_prompts, \* argument: the list of prompts
    p_pc,         \* position in ai_code_parallel_with_claude_code
    tasks,        \* one run_prompt task per prompt: its state and result
    finish_order, \* the indices of the tasks in the order they finished
    result_str,   \* the returned string, a list of text pieces
    \* voice_to_claude_code.py
    args_prompt,          \* args.prompt, a list of words; <<>> when not given
    initial_prompt,       \* self.initial_prompt; <<>> stands for None
    conversation_history, \* self.conversation_history
    conversation_file,    \* the content of output/<id>.yml, a list of lines
    resumed,              \* the history the constructor loaded
    v_pc,                 \* where main and conversation_loop stand
    user_text,            \* what listen returned to conversation_loop
    claude_calls,         \* the messages a claude subprocess was started for
    handed,               \* the calls of process_message: who called, with what
    \* tasks_to_markdown.py
    tasks_data,           \* the content of tasks.json
    source_data,          \* data, the tasks generate_markdown read
    md_content,           \* the content of the Markdown file, a list of lines
    t_pc,                 \* which runs of the converter have happened
    changes_made,         \* changes_made at the end of the update
    json_written,         \* the update rewrote tasks.json
    edited                \* the display ids of the checkboxes the user edited

match_vars == <<query, paths, cutoff, limit, m_pc, m_idx, matches, m_result, m_raised>>
collect_vars == <<fs, start_path, follow_symlinks, c_pc, walk_stack,
                  collected_paths, visited_dirs, c_result, c_raised, c_stderr>>
report_vars == <<scan_root, top_n, include_dupes, r_pc, ext_counter, ext_size,
                 file_sizes, dir_sizes, hashed, report, r_raised,
                 scandir_reversed, previous>>
grok_vars == <<root_above, g_pc, file_data, dir_count, file_count, errors, analysis>>
audit_vars == <<max_depth, a_pc, a_stack, total_files, total_dirs,
                file_extensions, largest_files, recent_files, directory_tree,
                listed>>
parallel_vars == <<ai_coding_prompts, p_pc, tasks, finish_order, result_str>>

voice_vars == <<args_prompt, initial_prompt, conversation_history,
                conversation_file, resumed, v_pc, user_text, claude_calls, handed>>
converter_vars == <<tasks_data, source_data, md_content, t_pc, changes_made, json_written, edited>>

\* the scripts outside src/explorer
script_vars == <<parallel_vars, voice_vars, converter_vars>>
vars == <<match_vars, collect_vars, report_vars, grok_vars, audit_vars, script_vars>>

\* what is private to collect_file_paths; the filesystem and the state of
\* os.walk are shared by every scanner
collect_own == <<c_pc, collected_paths, c_result, c_raised, c_stderr>>

\* the variables of the other operations
other_than_match == <<collect_vars, report_vars, grok_vars, audit_vars, script_vars>>
other_than_collect == <<match_vars, report_vars, grok_vars, audit_vars, script_vars>>
other_than_report == <<match_vars, collect_own, grok_vars, audit_vars, script_vars>>
other_than_grok == <<match_vars, collect_own, report_vars, audit_vars, script_vars>>
other_than_audit == <<match_vars, collect_own, report_vars, grok_vars, script_vars>>
explorer_vars == <<match_vars, collect_vars, report_vars, grok_vars, audit_vars>>
other_than_parallel == <<explorer_vars, voice_vars, converter_vars>>
other_than_voice == <<explorer_vars, parallel_vars, converter_vars>>
other_than_converter == <<explorer_vars, parallel_vars, voice_vars>>

(***************************************************************************)
(* Bounds of the model.                                                    *)
(***************************************************************************)
MaxPaths == 3        \* longest path list passed to fuzzy_match_paths
MaxLimit == 2        \* largest small limit tried (besides the default)
MaxNegLimit == 1     \* most negative limit tried is -MaxNegLimit
MaxStrLen == 3       \* longest query / basename of the exhaustive ratio check
MaxSymlinks == 2     \* symbolic links the system resolves in one path (ELOOP beyond)
MaxTop == 2          \* largest small top_n tried (besides the default)
MaxDepth == 2        \* largest small max_depth tried (besides the default)
MaxAbove == 1        \* most directories between "/" and the tree of a scan
MaxPrompts == 3      \* longest list of prompts run in parallel
MaxTurns == 3        \* most calls of process_message in a conversation
MaxTasks == 2        \* most tasks of a tasks.json
MaxSubtasks == 1     \* most subtasks of a task
MaxEdits == 1        \* most checkboxes the user edits

(***************************************************************************)
(* Program constants.                                                      *)
(***************************************************************************)
DefaultLimit == 20   \* def fuzzy_match_paths(..., limit=20)

\* cutoff=0.6, the default, as a rational in lowest terms
DefaultCutoff == [num |-> 3, den |-> 5]

(***************************************************************************)
(* Strings.                                                                *)
(***************************************************************************)
Min(x, y) == IF x <= y THEN x ELSE y
Max(x, y) == IF x >= y THEN x ELSE y

RECURSIVE Gcd(_, _)
Gcd(x, y) == IF y = 0 THEN x ELSE Gcd(y, x % y)

\* (mutant) a lower() that leaves every character as it is
LowerCharKeepsCase(c) == c

\* str.lower() on one character
LowerChar(c) ==
    CASE c = "A" -> "a"
      [] c = "B" -> "b"
      [] c = "C" -> "c"
      [] OTHER -> c

\* str.lower()
Lower(s) == [k \in 1..Len(s) |-> LowerChar(s[k])]

\* index of the last "/" of s, 0 if there is none
LastSep(s) ==
    LET seps == {k \in 1..Len(s) : s[k] = "/"}
    IN IF seps = {} THEN 0 ELSE CHOOSE k \in seps : \A l \in seps : l <= k

\* os.path.basename (posixpath): what follows the last "/"
Basename(s) == SubSeq(s, LastSep(s) + 1, Len(s))

\* all strings over alphabet of length at most n
RECURSIVE StringsUpTo(_, _)
StringsUpTo(alphabet, n) ==
    IF n = 0 THEN {<<>>}
    ELSE LET shorter == StringsUpTo(alphabet, n - 1)
         IN shorter \cup {Append(s, c) : s \in shorter, c \in alphabet}

\* s < t in Python's string order (code points; here the order of CharRank)
CharRank(c) ==
    CASE c = "." -> 46
      [] c = "/" -> 47
      [] c = "A" -> 65
      [] c = "B" -> 66
      [] c = "C" -> 67
      [] c = "a" -> 97
      [] c = "b" -> 98
      [] c = "c" -> 99
      [] c = "d" -> 100
      [] c = "r" -> 114
      [] c = "x" -> 120
      [] c = "y" -> 121
      [] OTHER -> 0

StrLess(s, t) ==
    \E k \in 1..(Min(Len(s), Len(t)) + 1) :
        /\ \A l \in 1..(k - 1) : s[l] = t[l]
        /\ \/ k = Len(s) + 1 /\ k <= Len(t)
           \/ k <= Len(s) /\ k <= Len(t) /\ CharRank(s[k]) < CharRank(t[k])

(***************************************************************************)
(* difflib.SequenceMatcher(None, a, b), as used at maximized.py:94-95.     *)
(* No junk predicate is given, and the automatic junk heuristic applies    *)
(* only to a second sequence of 200 or more characters, far more than any  *)
(* string of this model, so every character of b is indexed.  Positions    *)
(* are 0-based and ranges half-open, as in difflib.                        *)
(***************************************************************************)

\* a[i:i+k] == b[j:j+k]
BlockAt(a, b, i, j, k) == \A d \in 0..(k - 1) : a[i + d + 1] = b[j + d + 1]

\* SequenceMatcher.find_longest_match(alo, ahi, blo, bhi): the longest block
\* common to a[alo:ahi] and b[blo:bhi]; of all longest blocks the one that
\* starts earliest in a, and of those the one that starts earliest in b;
\* (alo, blo, 0) when there is none.
FindLongestMatch(a, b, alo, ahi, blo, bhi) ==
    LET Has(k) == \E i \in alo..(ahi - k), j \in blo..(bhi - k) : BlockAt(a, b, i, j, k)
        sizes == {k \in 1..Min(ahi - alo, bhi - blo) : Has(k)}
    IN IF sizes = {} THEN [i |-> alo, j |-> blo, size |-> 0]
       ELSE LET k == CHOOSE x \in sizes : \A y \in sizes : y <= x
                is == {i \in alo..(ahi - k) :
                          \E j \in blo..(bhi - k) : BlockAt(a, b, i, j, k)}
                besti == CHOOSE x \in is : \A y \in is : x <= y
                js == {j \in blo..(bhi - k) : BlockAt(a, b, besti, j, k)}
                bestj == CHOOSE x \in js : \A y \in js : x <= y
            IN [i |-> besti, j |-> bestj, size |-> k]

\* The sum of the sizes of SequenceMatcher.get_matching_blocks(): the longest
\* block, then recursively the pieces to its left and to its right.
RECURSIVE MatchingCount(_, _, _, _, _, _)
MatchingCount(a, b, alo, ahi, blo, bhi) ==
    LET x == FindLongestMatch(a, b, alo, ahi, blo, bhi)
    IN IF x.size = 0 THEN 0
       ELSE x.size
            + (IF alo < x.i /\ blo < x.j
               THEN MatchingCount(a, b, alo, x.i, blo, x.j) ELSE 0)
            + (IF x.i + x.size < ahi /\ x.j + x.size < bhi
               THEN MatchingCount(a, b, x.i + x.size, ahi, x.j + x.size, bhi) ELSE 0)

\* the rational n/d (d > 0) in lowest terms
Rat(n, d) == LET g == Gcd(n, d) IN [num |-> n \div g, den |-> d \div g]

\* (mutant) a ratio that forgets to count a match on both sides
CalculateRatioSingle(m, length) == IF length = 0 THEN Rat(1, 1) ELSE Rat(m, length)

\* difflib._calculate_ratio(matches, length): 2.0 * matches / length, or 1.0
\* when length is 0
CalculateRatio(m, length) == IF length = 0 THEN Rat(1, 1) ELSE Rat(2 * m, length)

\* SequenceMatcher(None, a, b).ratio()
Ratio(a, b) ==
    CalculateRatio(MatchingCount(a, b, 0, Len(a), 0, Len(b)), Len(a) + Len(b))

\* comparisons of scores and cutoffs (denominators are positive)
RatGE(x, y) == x.num * y.den >= y.num * x.den
RatLess(x, y) == x.num * y.den < y.num * x.den
RatEq(x, y) == x.num * y.den = y.num * x.den

(***************************************************************************)
(* fuzzy_match_paths (maximized.py:69-112).                                *)
(***************************************************************************)

\* query_lower = query.lower()
QueryLower(q) == Lower(q)

\* path_basename_lower = os.path.basename(path_str).lower()
PathBasenameLower(path_str) == Lower(Basename(path_str))

\* final_ratio of one loop iteration (lines 89-104)
FinalRatio(q, path_str) == Ratio(QueryLower(q), PathBasenameLower(path_str))

\* (mutant) a strict test, final_ratio > cutoff
ClearsCutoffStrict(ratio, c) == RatLess(c, ratio)

\* the test of line 106: final_ratio >= cutoff
ClearsCutoff(ratio, c) == RatGE(ratio, c)

\* list.sort(key=lambda x: x[0], reverse=True): a stable sort, descending by
\* score; entries of equal score keep their order in the list
RECURSIVE SortByScoreDesc(_)
SortByScoreDesc(seq) ==
    IF seq = <<>> THEN <<>>
    ELSE LET front == SortByScoreDesc(SubSeq(seq, 1, Len(seq) - 1))
             e == seq[Len(seq)]
             \* e goes behind every entry whose score is >= its own
             n == Cardinality({k \in 1..Len(front) : RatGE(front[k].score, e.score)})
         IN SubSeq(front, 1, n) \o <<e>> \o SubSeq(front, n + 1, Len(front))

\* (mutant) a slice that keeps one entry too many
SliceToOneMore(seq, lim) ==
    LET n == Len(seq)
        stop == IF lim < 0 THEN Max(n + lim, 0) ELSE Min(lim + 1, n)
    IN SubSeq(seq, 1, stop)

\* the slice seq[:lim] of Python, lim any integer
SliceTo(seq, lim) ==
    LET n == Len(seq)
        stop == IF lim < 0 THEN Max(n + lim, 0) ELSE Min(lim, n)
    IN SubSeq(seq, 1, stop)

\* one iteration of the for loop (lines 86-107)
MatchLoop ==
    /\ m_pc = "loop"
    /\ m_idx < Len(paths)
    /\ LET path_str == paths[m_idx + 1]
           final_ratio == FinalRatio(query, path_str)
       IN matches' = IF ClearsCutoff(final_ratio, cutoff)
                     THEN Append(matches, [score |-> final_ratio, path |-> path_str])
                     ELSE matches
    /\ m_idx' = m_idx + 1
    /\ UNCHANGED <<query, paths, cutoff, limit, m_pc, m_result, m_raised>>
    /\ UNCHANGED other_than_match

\* the end of the loop: sort and return the slice (lines 110-112)
MatchReturn ==
    /\ m_pc = "loop"
    /\ m_idx = Len(paths)
    /\ matches' = SortByScoreDesc(matches)
    /\ m_result' = SliceTo(matches', limit)
    /\ m_pc' = "done"
    /\ UNCHANGED <<query, paths, cutoff, limit, m_idx, m_raised>>
    /\ UNCHANGED other_than_match

NextMatch == MatchLoop \/ MatchReturn

(***************************************************************************)
(* Inputs of fuzzy_match_paths.                                            *)
(***************************************************************************)
PathUniverse ==
    { <<"a", "b">>,                \* ab
      <<"x", "/", "a", "b">>,      \* x/ab
      <<"y", "/", "A", "B">>,      \* y/AB
      <<"d", "/">>,                \* d/   (empty basename)
      <<"b", "a">> }               \* ba

QuerySet == { <<>>, <<"a", "b">>, <<"A", "b">>, <<"b">> }

\* cutoffs: -1/2, 0, the default 0.6, 1 and 3/2
CutoffSet ==
    { [num |-> 0 - 1, den |-> 2], [num |-> 0, den |-> 1], DefaultCutoff,
      [num |-> 1, den |-> 1], [num |-> 3, den |-> 2] }

LimitSet == ((0 - MaxNegLimit)..MaxLimit) \cup {DefaultLimit}

RECURSIVE SeqsUpTo(_, _)
SeqsUpTo(S, n) ==
    IF n = 0 THEN {<<>>}
    ELSE LET shorter == SeqsUpTo(S, n - 1)
         IN shorter \cup {Append(s, e) : s \in shorter, e \in S}

\* the state at the entry of the for loop (lines 83-84 done)
MatchEntry ==
    /\ m_pc = "loop"
    /\ m_idx = 0
    /\ matches = <<>>
    /\ m_result = <<>>
    /\ m_raised = FALSE

MatchIdle ==
    /\ query = <<>>
    /\ paths = <<>>
    /\ cutoff = DefaultCutoff
    /\ limit = DefaultLimit
    /\ m_pc = "idle"
    /\ m_idx = 0
    /\ matches = <<>>
    /\ m_result = <<>>
    /\ m_raised = FALSE

\* the id that stands for a path that names nothing
NoNode == 0

CollectIdle ==
    /\ fs = <<>>
    /\ start_path = NoNode
    /\ follow_symlinks = FALSE
    /\ c_pc = "idle"
    /\ walk_stack = <<>>
    /\ collected_paths = <<>>
    /\ visited_dirs = {}
    /\ c_result = <<>>
    /\ c_raised = FALSE
    /\ c_stderr = FALSE

\* build_report is not called
ReportIdle ==
    /\ scan_root = <<>>
    /\ top_n = 0
    /\ include_dupes = FALSE
    /\ r_pc = "idle"
    /\ ext_counter = <<>>
    /\ ext_size = <<>>
    /\ file_sizes = <<>>
    /\ dir_sizes = <<>>
    /\ hashed = <<>>
    /\ report = <<>>
    /\ r_raised = FALSE
    /\ scandir_reversed = FALSE
    /\ previous = <<>>

\* scan_directory (grok.py) is not called
GrokIdle ==
    /\ root_above = <<>>
    /\ g_pc = "idle"
    /\ file_data = <<>>
    /\ dir_count = 0
    /\ file_count = 0
    /\ errors = <<>>
    /\ analysis = <<>>

\* scan_directory (4o.py) is not called
AuditIdle ==
    /\ max_depth = 0
    /\ a_pc = "idle"
    /\ a_stack = <<>>
    /\ total_files = 0
    /\ total_dirs = 0
    /\ file_extensions = <<>>
    /\ largest_files = <<>>
    /\ recent_files = <<>>
    /\ directory_tree = {}
    /\ listed = {}

\* collect_file_paths is not called
CollectNotCalled ==
    /\ c_pc = "idle"
    /\ collected_paths = <<>>
    /\ c_result = <<>>
    /\ c_raised = FALSE
    /\ c_stderr = FALSE

\* ai_code_parallel_with_claude_code is not called
ParallelIdle ==
    /\ ai_coding_prompts = <<>>
    /\ p_pc = "idle"
    /\ tasks = <<>>
    /\ finish_order = <<>>
    /\ result_str = <<>>

\* the voice assistant is not started
VoiceIdle ==
    /\ args_prompt = <<>>
    /\ initial_prompt = <<>>
    /\ conversation_history = <<>>
    /\ conversation_file = <<>>
    /\ resumed = <<>>
    /\ v_pc = "idle"
    /\ user_text = <<>>
    /\ claude_calls = <<>>
    /\ handed = <<>>

\* the task converter is not run
ConverterIdle ==
    /\ tasks_data = <<>>
    /\ source_data = <<>>
    /\ md_content = <<>>
    /\ t_pc = "idle"
    /\ changes_made = FALSE
    /\ json_written = FALSE
    /\ edited = {}

\* no script outside src/explorer runs
ScriptsIdle == ParallelIdle /\ VoiceIdle /\ ConverterIdle

\* no script of src/explorer runs
ExplorerIdle ==
    /\ MatchIdle
    /\ CollectIdle
    /\ ReportIdle
    /\ GrokIdle
    /\ AuditIdle

\* every call of fuzzy_match_paths over the small path universe
InitMatch ==
    /\ query \in QuerySet
    /\ paths \in SeqsUpTo(PathUniverse, MaxPaths)
    /\ cutoff \in CutoffSet
    /\ limit \in LimitSet
    /\ MatchEntry
    /\ CollectIdle
    /\ ReportIdle
    /\ GrokIdle
    /\ AuditIdle
    /\ ScriptsIdle

SpecMatch == InitMatch /\ [][NextMatch]_vars

\* the characters of the exhaustive ratio check
QueryChars == {"a", "b", "C"}
NameChars == {"a", "b", "c", "A"}

\* every query and every basename up to MaxStrLen characters; the basename is
\* passed twice, bare and below a directory, with cutoff 0 so that every
\* score is recorded
InitRatio ==
    /\ query \in StringsUpTo(QueryChars, MaxStrLen)
    /\ \E b \in StringsUpTo(NameChars, MaxStrLen) : paths = <<b, <<"d", "/">> \o b>>
    /\ cutoff = [num |-> 0, den |-> 1]
    /\ limit = DefaultLimit
    /\ MatchEntry
    /\ CollectIdle
    /\ ReportIdle
    /\ GrokIdle
    /\ AuditIdle
    /\ ScriptsIdle

SpecRatio == InitRatio /\ [][NextMatch]_vars

(***************************************************************************)
(* The search for "report" among three candidate paths.                    *)
(***************************************************************************)
\* "report"
ReportQuery ==
    <<"r", "e", "p", "o", "r", "t">>

\* "root/report_final.csv"
ReportFinalCsv ==
    <<"r", "o", "o", "t", "/", "r", "e", "p", "o", "r", "t", "_", "f", "i",
      "n", "a", "l", ".", "c", "s", "v">>

\* "root/reports/old.txt"
ReportsOldTxt ==
    <<"r", "o", "o", "t", "/", "r", "e", "p", "o", "r", "t", "s", "/", "o",
      "l", "d", ".", "t", "x", "t">>

\* "root/x.txt"
XTxt ==
    <<"r", "o", "o", "t", "/", "x", ".", "t", "x", "t">>

Candidates == {ReportFinalCsv, ReportsOldTxt, XTxt}

\* the lists that hold some of the candidates, each at most once, in any order
CandidateLists ==
    {s \in SeqsUpTo(Candidates, Cardinality(Candidates)) :
        \A i, j \in 1..Len(s) : i # j => s[i] # s[j]}

\* cutoffs: the default 0.6, 1/2 and 3/10
ScenarioCutoffs ==
    {DefaultCutoff, [num |-> 1, den |-> 2], [num |-> 3, den |-> 10]}

\* the calls of fuzzy_match_paths with the query "report", or the basename
\* of a candidate as the query, over the candidate lists
InitScenario ==
    /\ query \in {ReportQuery} \cup {Basename(c) : c \in Candidates}
    /\ paths \in CandidateLists
    /\ cutoff \in ScenarioCutoffs
    /\ limit \in {1, DefaultLimit}
    /\ MatchEntry
    /\ CollectIdle
    /\ ReportIdle
    /\ GrokIdle
    /\ AuditIdle
    /\ ScriptsIdle

SpecScenario == InitScenario /\ [][NextMatch]_vars

(***************************************************************************)
(* The filesystem collect_file_paths walks.                                *)
(*                                                                         *)
(* Seven entries in a fixed shape: entry 1 is a directory, entries 2, 3    *)
(* and 7 lie in it, entry 4 lies in entry 2, entry 5 in entry 3 and entry  *)
(* 6 in entry 4.  An entry below something that is not a directory does    *)
(* not exist.  Names and                                                   *)
(* kinds vary; entry 3 may be a symbolic link, to entry 1, 2 or 4 or to    *)
(* nothing (a dangling link).  A path is the sequence of entries it names, *)
(* from the scan root: <<1, 3, 4>> is root/<link>/<entry 4> when entry 3   *)
(* links to entry 2.                                                       *)
(***************************************************************************)
TreeParent == <<0, 1, 1, 2, 3, 4, 1>>
Nodes == 1..Len(TreeParent)

RootName == <<"r">>
EntryNames == { <<"a">>, <<".", "h">>, <<"b", "u", "i", "l", "d">> }

\* the kinds an entry can have
KindsOf(n) ==
    CASE n = 1 -> {"dir"}
      [] n = 3 -> {"dir", "file", "link"}
      [] n = 5 -> {"file"}
      [] n = 6 -> {"file"}
      [] n = 7 -> {"file"}
      [] OTHER -> {"dir", "file"}

LinkTargets == {NoNode, 1, 2, 4}

\* an entry record; only a link has a target
Entry(name, kind, target) ==
    [name |-> name, kind |-> kind, target |-> IF kind = "link" THEN target ELSE NoNode]

\* every filesystem of that shape; the three entries of directory 1 have
\* different names
FileSystems ==
    { <<Entry(RootName, "dir", NoNode),
        Entry(names[1], k2, NoNode),
        Entry(names[2], k3, t3),
        Entry(names[3], k4, NoNode),
        Entry(names[4], k5, NoNode),
        Entry(names[5], k6, NoNode),
        Entry(names[6], "file", NoNode)>> :
        names \in {x \in EntryNames \X EntryNames \X EntryNames \X EntryNames
                            \X EntryNames \X EntryNames :
                      x[1] # x[2] /\ x[1] # x[6] /\ x[2] # x[6]},
        k2 \in KindsOf(2), k4 \in KindsOf(4), k5 \in KindsOf(5), k6 \in KindsOf(6),
        <<k3, t3>> \in {x \in KindsOf(3) \X LinkTargets :
                          x[1] # "link" => x[2] = NoNode} }

\* entry n exists: every entry above it is a directory
RECURSIVE Exists(_)
Exists(n) ==
    /\ n # NoNode
    /\ \/ TreeParent[n] = NoNode
       \/ fs[TreeParent[n]].kind = "dir" /\ Exists(TreeParent[n])

\* the entry a path ending in entry n resolves to: n itself, or the target
\* of the link n, NoNode if that is missing (no link here points to a link)
Resolve(n) ==
    IF n # NoNode /\ fs[n].kind = "link"
    THEN (IF Exists(fs[n].target) THEN fs[n].target ELSE NoNode)
    ELSE n

Last(P) == P[Len(P)]

\* the symbolic links the system follows to resolve path P to its target
LinkCount(P) == Cardinality({k \in 1..Len(P) : fs[P[k]].kind = "link"})

\* os.path.isdir(P) / DirEntry.is_dir(): follows links; False on any OSError
PathIsDir(P) ==
    /\ LinkCount(P) <= MaxSymlinks
    /\ Resolve(Last(P)) # NoNode
    /\ fs[Resolve(Last(P))].kind = "dir"

\* os.path.isfile(P): follows links; False on any OSError
PathIsFile(P) ==
    /\ LinkCount(P) <= MaxSymlinks
    /\ Resolve(Last(P)) # NoNode
    /\ fs[Resolve(Last(P))].kind = "file"

\* os.path.islink(P): lstat, the last component is not followed
PathIsLink(P) ==
    /\ LinkCount(SubSeq(P, 1, Len(P) - 1)) <= MaxSymlinks
    /\ fs[Last(P)].kind = "link"

\* os.path.isfile(os.path.realpath(P)): realpath resolves the links itself
RealPathIsFile(P) ==
    /\ Resolve(Last(P)) # NoNode
    /\ fs[Resolve(Last(P))].kind = "file"

\* the ids of set S in ascending order
RECURSIVE Ascending(_)
Ascending(S) ==
    IF S = {} THEN <<>>
    ELSE LET m == CHOOSE x \in S : \A y \in S : x <= y
         IN <<m>> \o Ascending(S \ {m})

\* seq backwards
Reverse(seq) == [k \in 1..Len(seq) |-> seq[Len(seq) + 1 - k]]

\* os.scandir(P): the entries of the directory P resolves to
ScanDir(P) == Ascending({n \in Nodes : TreeParent[n] = Resolve(Last(P))})

\* a path as the list of its component names; the first is abs_start_path
PathString(P) == [k \in 1..Len(P) |-> fs[P[k]].name]

\* the components of the real location of entry n, from entry 1 down
RECURSIVE RealComponents(_)
RealComponents(n) ==
    IF n = NoNode THEN <<>> ELSE Append(RealComponents(TreeParent[n]), fs[n].name)

\* os.path.realpath(P)
RealPath(P) == RealComponents(Resolve(Last(P)))

(***************************************************************************)
(* collect_file_paths (maximized.py:9-66), exclude_dirs left at None.      *)
(***************************************************************************)

\* the default exclude_dirs (lines 22-33)
ExcludeDirs ==
    { <<"_", "_", "p", "y", "c", "a", "c", "h", "e", "_", "_">>,
      <<"n", "o", "d", "e", "_", "m", "o", "d", "u", "l", "e", "s">>,
      <<"v", "e", "n", "v">>,
      <<".", "g", "i", "t">>,
      <<".", "s", "v", "n">>,
      <<".", "h", "g">>,
      <<"d", "i", "s", "t">>,
      <<"b", "u", "i", "l", "d">>,
      <<"t", "a", "r", "g", "e", "t">> }

\* d.startswith(".")
StartsWithDot(d) == Len(d) >= 1 /\ d[1] = "."

\* (mutant) a filter that forgets the dot rule
KeepDirAnyDot(d) == d \notin ExcludeDirs

\* the filter of line 49: not d.startswith(".") and d not in exclude_dirs
KeepDir(d) == ~StartsWithDot(d) /\ d \notin ExcludeDirs

\* what the body of the inner loop appends for file_path (lines 52-64)
CollectFile(file_path) ==
    IF ~follow_symlinks /\ PathIsLink(file_path) THEN <<>>
    ELSE IF PathIsFile(file_path) THEN <<PathString(file_path)>>
    ELSE IF PathIsLink(file_path) /\ RealPathIsFile(file_path)
         THEN <<RealPath(file_path)>>
    ELSE <<>>

\* the inner loop over files (lines 51-64)
RECURSIVE CollectFiles(_, _)
CollectFiles(root, files) ==
    IF files = <<>> THEN <<>>
    ELSE CollectFile(Append(root, Head(files))) \o CollectFiles(root, Tail(files))

\* the subdirectories os.walk descends into after the body has pruned dirs:
\* all of them when followlinks is set, else those that are not links
WalkInto(root, dirs) ==
    SelectSeq([k \in 1..Len(dirs) |-> Append(root, dirs[k])],
              LAMBDA P : follow_symlinks \/ ~PathIsLink(P))

\* lines 36-43: abs_start_path is not a directory
CollectInvalidRoot ==
    /\ c_pc = "start"
    /\ ~(start_path # NoNode /\ PathIsDir(<<start_path>>))
    /\ c_stderr' = TRUE
    /\ c_result' = <<>>
    /\ c_pc' = "done"
    /\ UNCHANGED <<fs, start_path, follow_symlinks, walk_stack, collected_paths,
                   visited_dirs, c_raised>>
    /\ UNCHANGED other_than_collect

\* lines 36-46: abs_start_path is a directory, os.walk starts there
CollectBeginWalk ==
    /\ c_pc = "start"
    /\ start_path # NoNode /\ PathIsDir(<<start_path>>)
    /\ walk_stack' = <<<<start_path>>>>
    /\ c_pc' = "walk"
    /\ UNCHANGED <<fs, start_path, follow_symlinks, collected_paths, visited_dirs,
                   c_result, c_raised, c_stderr>>
    /\ UNCHANGED other_than_collect

\* one iteration of the for loop over os.walk (lines 45-64): os.walk lists
\* root and splits its entries, the body prunes dirs and collects files, and
\* os.walk then schedules the directories that are left
CollectWalkStep ==
    /\ c_pc = "walk"
    /\ walk_stack # <<>>
    /\ \E root \in {Head(walk_stack)} :
       \E entries \in {ScanDir(root)} :
       \E walk_dirs \in {SelectSeq(entries, LAMBDA e : PathIsDir(Append(root, e)))} :
       \E files \in {SelectSeq(entries, LAMBDA e : ~PathIsDir(Append(root, e)))} :
       \E dirs \in {SelectSeq(walk_dirs, LAMBDA e : KeepDir(fs[e].name))} :
          /\ collected_paths' = collected_paths \o CollectFiles(root, files)
          /\ walk_stack' = WalkInto(root, dirs) \o Tail(walk_stack)
          /\ visited_dirs' = visited_dirs \cup {root}
    /\ UNCHANGED <<fs, start_path, follow_symlinks, c_pc, c_result, c_raised, c_stderr>>
    /\ UNCHANGED other_than_collect

\* line 66: os.walk is exhausted
CollectReturn ==
    /\ c_pc = "walk"
    /\ walk_stack = <<>>
    /\ c_result' = collected_paths
    /\ c_pc' = "done"
    /\ UNCHANGED <<fs, start_path, follow_symlinks, walk_stack, collected_paths,
                   visited_dirs, c_raised, c_stderr>>
    /\ UNCHANGED other_than_collect

NextCollect ==
    CollectInvalidRoot \/ CollectBeginWalk \/ CollectWalkStep \/ CollectReturn

\* every call of collect_file_paths on every filesystem of the model: the
\* scan root is entry 1, entry 2 (a directory or a file) or a missing path
InitCollect ==
    /\ fs \in FileSystems
    /\ start_path \in {NoNode, 1, 2}
    /\ follow_symlinks \in BOOLEAN
    /\ c_pc = "start"
    /\ walk_stack = <<>>
    /\ collected_paths = <<>>
    /\ visited_dirs = {}
    /\ c_result = <<>>
    /\ c_raised = FALSE
    /\ c_stderr = FALSE
    /\ MatchIdle
    /\ ReportIdle
    /\ GrokIdle
    /\ AuditIdle
    /\ ScriptsIdle

SpecCollect == InitCollect /\ [][NextCollect]_vars

(***************************************************************************)
(* The filesystem the report scanners walk.                                *)
(*                                                                         *)
(* The shape of TreeParent with fixed names.  A regular file has a content *)
(* (its size is the length of the content) and an access:                  *)
(*   "ok"      stat and read succeed                                       *)
(*   "nostat"  stat raises PermissionError / FileNotFoundError             *)
(*   "denied"  stat succeeds, open raises PermissionError                  *)
(*   "ioerr"   stat succeeds, open or read raises another OSError (a       *)
(*             socket, a failing device)                                   *)
(* Only entry 7 has an access other than "ok".  An entry that does not     *)
(* exist is filled in as an empty file.                                    *)
(***************************************************************************)
ReportNames ==
    << RootName, <<"c">>, <<"b", ".", "a">>, <<"a", ".", "A">>, <<".", "c">>,
       <<"b", ".">>, <<"a", ".", "A">> >>

FileContents == { <<>>, <<"x">>, <<"y">> }

\* content and access of entry 7
Profiles ==
    {<<c, "ok">> : c \in FileContents} \cup
    {<<<<"x">>, a>> : a \in {"nostat", "denied", "ioerr"}}

\* an entry record of the report filesystems
FileEntry(n, kind, target, content, access) ==
    [name |-> ReportNames[n], kind |-> kind,
     target |-> IF kind = "link" THEN target ELSE NoNode,
     content |-> IF kind = "file" THEN content ELSE <<>>,
     access |-> access]

ReportFileSystems ==
    { << FileEntry(1, "dir", NoNode, <<>>, "ok"),
         FileEntry(2, k[1], NoNode, c[1], "ok"),
         FileEntry(3, k[2], t3, c[2], "ok"),
         FileEntry(4, k[3], NoNode, c[3], "ok"),
         FileEntry(5, "file", NoNode, c[4], "ok"),
         FileEntry(6, "file", NoNode, c[5], "ok"),
         FileEntry(7, "file", NoNode, p7[1], p7[2]) >> :
        k \in {x \in KindsOf(2) \X KindsOf(3) \X KindsOf(4) :
                  \* entry 4 exists only below a directory 2
                  x[1] # "dir" => x[3] = "file"},
        t3 \in LinkTargets,
        c \in FileContents \X FileContents \X FileContents \X FileContents
                  \X FileContents,
        p7 \in Profiles }

\* the filesystems of ReportFileSystems in which only what exists varies
CanonicalFileSystem(f) ==
    /\ f[3].kind # "link" => f[3].target = NoNode
    /\ \A n \in 2..6 :
          LET there == CASE n = 4 -> f[2].kind = "dir"
                         [] n = 5 -> f[3].kind = "dir"
                         [] n = 6 -> f[2].kind = "dir" /\ f[4].kind = "dir"
                         [] OTHER -> TRUE
          IN (f[n].kind # "file" \/ ~there) => f[n].content = <<>>

\* st_size of entry n: the length of a file's content (the st_size of a
\* directory depends on the filesystem and is left at 0)
SizeOf(n) == Len(fs[n].content)

\* st_mtime of entry n (fixed; two entries may share a time stamp)
ModifiedAt == <<1, 2, 1, 2, 1, 2, 1>>

\* Path.stat() / os.stat(P): follows links.  "ok", or the error raised
StatOutcome(P) ==
    IF LinkCount(P) > MaxSymlinks THEN "OSError"
    ELSE IF Resolve(Last(P)) = NoNode THEN "FileNotFoundError"
    ELSE IF fs[Resolve(Last(P))].access = "nostat" THEN "PermissionError"
    ELSE "ok"

\* open(P) and read to the end: "ok", or the error raised
ReadOutcome(P) ==
    IF StatOutcome(P) # "ok" THEN StatOutcome(P)
    ELSE CASE fs[Resolve(Last(P))].access = "denied" -> "PermissionError"
           [] fs[Resolve(Last(P))].access = "ioerr" -> "OSError"
           [] OTHER -> "ok"

(***************************************************************************)
(* Python dicts (dict, defaultdict(int), Counter) as lists of key/value    *)
(* pairs in insertion order.                                               *)
(***************************************************************************)
HasKey(d, k) == \E i \in 1..Len(d) : d[i].key = k

\* d[k], 0 for a missing key
ValueAt(d, k) ==
    IF HasKey(d, k) THEN d[CHOOSE i \in 1..Len(d) : d[i].key = k].val ELSE 0

\* (mutant) an update that overwrites instead of adding
DictSet(d, k, n) ==
    IF HasKey(d, k)
    THEN [i \in 1..Len(d) |-> IF d[i].key = k THEN [key |-> k, val |-> n] ELSE d[i]]
    ELSE Append(d, [key |-> k, val |-> n])

\* d[k] += n
DictAdd(d, k, n) ==
    IF HasKey(d, k)
    THEN [i \in 1..Len(d) |->
             IF d[i].key = k THEN [key |-> k, val |-> d[i].val + n] ELSE d[i]]
    ELSE Append(d, [key |-> k, val |-> n])

\* the only element of the one-element set S
Only(S) == CHOOSE x \in S : TRUE

\* sorted(seq, key=..., reverse=True): a stable sort, keys[k] the key of
\* seq[k], greatest key first
RECURSIVE SortedDesc(_, _)
SortedDesc(seq, keys) ==
    IF seq = <<>> THEN <<>>
    ELSE LET last == Len(seq)
             \* seq[last] goes behind every entry whose key is >= its own
             n == Cardinality({k \in 1..(last - 1) : keys[k] >= keys[last]})
         IN Only({ SubSeq(front, 1, n) \o <<seq[last]>> \o SubSeq(front, n + 1, Len(front)) :
                   front \in {SortedDesc(SubSeq(seq, 1, last - 1),
                                         SubSeq(keys, 1, last - 1))} })

(***************************************************************************)
(* scan (o3.py:77-106).                                                    *)
(***************************************************************************)

\* the parts of the pathlib.Path for walk path P: the root as the caller
\* spelled it, then the names below it.  Path(".") has no parts.
PathParts(P) == scan_root \o [k \in 1..(Len(P) - 1) |-> fs[P[k + 1]].name]

\* index of the last "." of name, 0 if there is none
LastDot(name) ==
    LET dots == {k \in 1..Len(name) : name[k] = "."}
    IN IF dots = {} THEN 0 ELSE CHOOSE k \in dots : \A l \in dots : l <= k

\* PurePath.suffix: what starts at the last dot, unless that dot is the
\* first or the last character of the name
Suffix(name) ==
    IF 1 < LastDot(name) /\ LastDot(name) < Len(name)
    THEN SubSeq(name, LastDot(name), Len(name))
    ELSE <<>>

NoExt == <<"<", "n", "o", "-", "e", "x", "t", ">">>

\* line 94: path.suffix.lower() or "<no-ext>"
ExtOf(name) == IF Suffix(name) = <<>> THEN NoExt ELSE Lower(Suffix(name))

\* [dp, *dp.parents] (line 100): dp and every shorter prefix of its parts,
\* down to Path(".")
RECURSIVE ParentChain(_)
ParentChain(parts) ==
    IF parts = <<>> THEN << <<>> >>
    ELSE <<parts>> \o ParentChain(SubSeq(parts, 1, Len(parts) - 1))

\* lines 100-101
RECURSIVE Propagate(_, _, _)
Propagate(sizes, chain, size) ==
    IF chain = <<>> THEN sizes
    ELSE Only({ Propagate(added, rest, size) :
                added \in {DictAdd(sizes, Head(chain), size)}, rest \in {Tail(chain)} })

\* the four collections of scan, and whether an exception ended it
ScanState(counter, bytes, files_, dirs_, raised) ==
    [ext_counter |-> counter, ext_size |-> bytes, file_sizes |-> files_,
     dir_sizes |-> dirs_, raised |-> raised]

\* lines 89-101 for one file name: the state after the body, from the state
\* before it
ScanFile(before, dp, fname) ==
    Only({ LET path == Append(dp, e)
               outcome == StatOutcome(path)
               size == SizeOf(Resolve(e))
               ext == ExtOf(fs[e].name)
           IN IF s.raised THEN s
              ELSE IF outcome \in {"FileNotFoundError", "PermissionError"} THEN s
              ELSE IF outcome # "ok" THEN [s EXCEPT !.raised = TRUE]
              ELSE ScanState(DictAdd(s.ext_counter, ext, 1),
                             DictAdd(s.ext_size, ext, size),
                             Append(s.file_sizes, [size |-> size, path |-> path]),
                             Propagate(s.dir_sizes, ParentChain(PathParts(dp)), size),
                             FALSE) :
           s \in {before}, e \in {fname} })

\* the inner loop over filenames (lines 88-101)
RECURSIVE ScanFiles(_, _, _)
ScanFiles(s, dp, filenames) ==
    IF filenames = <<>> THEN s
    ELSE ScanFiles(ScanFile(s, dp, Head(filenames)), dp, Tail(filenames))

(***************************************************************************)
(* detect_duplicates (o3.py:109-130) and sha256_for_file (o3.py:68-74).    *)
(***************************************************************************)

\* (mutant) a digest that tells contents apart by their length only
Sha256OfLength(content) == [sha256 |-> Len(content)]

\* the digest of a content; different contents have different digests
Sha256(content) == [sha256 |-> content]

\* the keys of size_buckets in insertion order (lines 112-114)
RECURSIVE BucketSizes(_)
BucketSizes(sizes) ==
    IF sizes = <<>> THEN <<>>
    ELSE LET front == BucketSizes(SubSeq(sizes, 1, Len(sizes) - 1))
             e == sizes[Len(sizes)]
         IN IF \E k \in 1..Len(front) : front[k] = e THEN front ELSE Append(front, e)

\* size_buckets[size]
Bucket(sizes, size) == SelectSeq(sizes, LAMBDA x : x.size = size)

\* (mutant) a pass that hashes every bucket
HashesEveryBucket(same_size_paths) == FALSE

\* line 118: the bucket is skipped
SkipsBucket(same_size_paths) == Len(same_size_paths) < 2

\* hashes[digest].append(str(p)) (line 126)
HashesAppend(hashes, digest, p) ==
    IF HasKey(hashes, digest)
    THEN [i \in 1..Len(hashes) |->
             IF hashes[i].key = digest
             THEN [key |-> digest, val |-> Append(hashes[i].val, p)]
             ELSE hashes[i]]
    ELSE Append(hashes, [key |-> digest, val |-> <<p>>])

\* lines 120-126 over one bucket: the local dict hashes, the paths hashed and
\* whether sha256_for_file raised an exception that is not caught
RECURSIVE HashBucket(_, _)
HashBucket(h, same_size_paths) ==
    IF same_size_paths = <<>> \/ h.raised THEN h
    ELSE LET p == Head(same_size_paths).path
             outcome == ReadOutcome(p)
             called == Append(h.hashed, p)
         IN HashBucket(
              IF outcome \in {"FileNotFoundError", "PermissionError"}
              THEN [h EXCEPT !.hashed = called]
              ELSE IF outcome # "ok"
              THEN [h EXCEPT !.hashed = called, !.raised = TRUE]
              ELSE [h EXCEPT !.hashed = called,
                             !.hashes = HashesAppend(h.hashes,
                                          Sha256(fs[Resolve(Last(p))].content), p)],
              Tail(same_size_paths))

\* lines 127-129: dupes[digest] = paths for every digest with len(paths) > 1
RECURSIVE KeepGroups(_, _)
KeepGroups(dupes, hashes) ==
    IF hashes = <<>> THEN dupes
    ELSE KeepGroups(
           IF Len(Head(hashes).val) > 1
           THEN (IF HasKey(dupes, Head(hashes).key)
                 THEN [i \in 1..Len(dupes) |->
                          IF dupes[i].key = Head(hashes).key THEN Head(hashes)
                          ELSE dupes[i]]
                 ELSE Append(dupes, Head(hashes)))
           ELSE dupes,
           Tail(hashes))

\* the loop over size_buckets.values() (lines 117-129)
RECURSIVE DetectBuckets(_, _, _)
DetectBuckets(d, sizes, keys) ==
    IF keys = <<>> \/ d.raised THEN d
    ELSE LET same_size_paths == Bucket(sizes, Head(keys))
         IN IF SkipsBucket(same_size_paths)
            THEN DetectBuckets(d, sizes, Tail(keys))
            ELSE LET h == HashBucket([hashes |-> <<>>, hashed |-> d.hashed,
                                      raised |-> FALSE], same_size_paths)
                 IN DetectBuckets(
                      [dupes |-> IF h.raised THEN d.dupes
                                 ELSE KeepGroups(d.dupes, h.hashes),
                       hashed |-> h.hashed, raised |-> h.raised],
                      sizes, Tail(keys))

\* detect_duplicates(file_sizes)
DetectDuplicates(sizes) ==
    DetectBuckets([dupes |-> <<>>, hashed |-> <<>>, raised |-> FALSE], sizes,
                  BucketSizes([k \in 1..Len(sizes) |-> sizes[k].size]))

(***************************************************************************)
(* build_report (o3.py:133-179).                                           *)
(***************************************************************************)
DefaultTop == 10   \* --top, default=10 (o3.py:227)

\* the sort keys of lines 142, 145, 146 and 148
BySize(seq) == [k \in 1..Len(seq) |-> seq[k].size]
ByVal(seq) == [k \in 1..Len(seq) |-> seq[k].val]
ByBytes(seq) == [k \in 1..Len(seq) |-> seq[k].total_bytes]
ByModified(seq) == [k \in 1..Len(seq) |-> ModifiedAt[Resolve(Last(seq[k].path))]]

\* line 141: (ext, count, ext_size[ext]) for ext, count in ext_counter.items()
ExtRows ==
    [k \in 1..Len(ext_counter) |->
        [extension |-> ext_counter[k].key,
         count |-> ext_counter[k].val,
         total_bytes |-> ValueAt(ext_size, ext_counter[k].key)]]

\* lines 140-174
BuildReport ==
    [extension_stats |-> SortedDesc(ExtRows, ByBytes(ExtRows)),
     largest_files |-> SliceTo(SortedDesc(file_sizes, BySize(file_sizes)), top_n),
     heaviest_directories |-> SliceTo(SortedDesc(dir_sizes, ByVal(dir_sizes)), top_n),
     most_recent_files |-> SliceTo(SortedDesc(file_sizes, ByModified(file_sizes)), top_n)]

\* os.scandir(P) as os.walk calls it: the order of the entries is the
\* filesystem's, one of two here
ReportScanDir(P) == IF scandir_reversed THEN Reverse(ScanDir(P)) ELSE ScanDir(P)

\* line 137, os.walk(root, ...) starts (o3.py:86); a root that is not a
\* directory is walked as nothing
ReportBeginScan ==
    /\ r_pc = "start"
    /\ walk_stack' = IF PathIsDir(<<start_path>>) THEN <<<<start_path>>>> ELSE <<>>
    /\ r_pc' = "scan"
    /\ UNCHANGED <<fs, start_path, follow_symlinks, visited_dirs>>
    /\ UNCHANGED <<scandir_reversed, previous>>
    /\ UNCHANGED <<scan_root, top_n, include_dupes, ext_counter, ext_size,
                   file_sizes, dir_sizes, hashed, report, r_raised>>
    /\ UNCHANGED other_than_report

\* one iteration of the for loop over os.walk (lines 86-101)
ReportScanStep ==
    /\ r_pc = "scan"
    /\ walk_stack # <<>>
    /\ \E dp \in {Head(walk_stack)} :
       \E entries \in {ReportScanDir(dp)} :
       \E dirnames \in {SelectSeq(entries, LAMBDA e : PathIsDir(Append(dp, e)))} :
       \E filenames \in {SelectSeq(entries, LAMBDA e : ~PathIsDir(Append(dp, e)))} :
       \E s \in {ScanFiles(ScanState(ext_counter, ext_size, file_sizes, dir_sizes,
                                    FALSE), dp, filenames)} :
          /\ ext_counter' = s.ext_counter
          /\ ext_size' = s.ext_size
          /\ file_sizes' = s.file_sizes
          /\ dir_sizes' = s.dir_sizes
          /\ r_raised' = s.raised
          /\ r_pc' = IF s.raised THEN "done" ELSE "scan"
          /\ walk_stack' = IF s.raised THEN <<>>
                           ELSE WalkInto(dp, dirnames) \o Tail(walk_stack)
          /\ visited_dirs' = visited_dirs \cup {dp}
    /\ UNCHANGED <<fs, start_path, follow_symlinks>>
    /\ UNCHANGED <<scandir_reversed, previous>>
    /\ UNCHANGED <<scan_root, top_n, include_dupes, hashed, report>>
    /\ UNCHANGED other_than_report

\* the sort key of line 148 can be computed: Path(x[1]).stat() succeeds for
\* every recorded file
CanRankByModified ==
    \A i \in 1..Len(file_sizes) : StatOutcome(file_sizes[i].path) = "ok"

\* os.walk is exhausted, scan returns, the report is built (lines 103-174);
\* an exception of the stat of line 148 is not caught
ReportBuild ==
    /\ r_pc = "scan"
    /\ walk_stack = <<>>
    /\ IF CanRankByModified
       THEN /\ report' = BuildReport
            /\ r_pc' = "built"
            /\ UNCHANGED r_raised
       ELSE /\ r_raised' = TRUE
            /\ r_pc' = "done"
            /\ UNCHANGED report
    /\ UNCHANGED <<fs, start_path, follow_symlinks, walk_stack, visited_dirs>>
    /\ UNCHANGED <<scandir_reversed, previous>>
    /\ UNCHANGED <<scan_root, top_n, include_dupes, ext_counter, ext_size,
                   file_sizes, dir_sizes, hashed>>
    /\ UNCHANGED other_than_report

\* lines 176-179 with include_dupes set
ReportWithDupes ==
    /\ r_pc = "built"
    /\ include_dupes
    /\ LET d == DetectDuplicates(file_sizes)
       IN /\ hashed' = d.hashed
          /\ r_raised' = d.raised
          /\ report' = IF d.raised THEN <<>>
                       ELSE [extension_stats |-> report.extension_stats,
                             largest_files |-> report.largest_files,
                             heaviest_directories |-> report.heaviest_directories,
                             most_recent_files |-> report.most_recent_files,
                             duplicates |-> d.dupes]
    /\ r_pc' = "done"
    /\ UNCHANGED <<fs, start_path, follow_symlinks, walk_stack, visited_dirs>>
    /\ UNCHANGED <<scandir_reversed, previous>>
    /\ UNCHANGED <<scan_root, top_n, include_dupes, ext_counter, ext_size,
                   file_sizes, dir_sizes>>
    /\ UNCHANGED other_than_report

\* lines 176-179 with include_dupes not set
ReportWithoutDupes ==
    /\ r_pc = "built"
    /\ ~include_dupes
    /\ r_pc' = "done"
    /\ UNCHANGED <<fs, start_path, follow_symlinks, walk_stack, visited_dirs>>
    /\ UNCHANGED <<scandir_reversed, previous>>
    /\ UNCHANGED <<scan_root, top_n, include_dupes, ext_counter, ext_size,
                   file_sizes, dir_sizes, hashed, report, r_raised>>
    /\ UNCHANGED other_than_report

NextReport ==
    ReportBeginScan \/ ReportScanStep \/ ReportBuild \/ ReportWithDupes
        \/ ReportWithoutDupes

\* every call of build_report on every filesystem of the model: the root is
\* entry 1, spelled "r" or "." (from inside it), or entry 2, spelled "r/c"
InitReport ==
    /\ fs \in {f \in ReportFileSystems : CanonicalFileSystem(f)}
    /\ \E spelled \in {<<1, <<RootName>>>>, <<1, <<>>>>,
                       <<2, <<RootName, ReportNames[2]>>>>} :
          start_path = spelled[1] /\ scan_root = spelled[2]
    /\ follow_symlinks \in BOOLEAN
    /\ top_n \in (0..MaxTop) \cup {DefaultTop}
    /\ include_dupes \in BOOLEAN
    /\ r_pc = "start"
    /\ walk_stack = <<>>
    /\ visited_dirs = {}
    /\ ext_counter = <<>>
    /\ ext_size = <<>>
    /\ file_sizes = <<>>
    /\ dir_sizes = <<>>
    /\ hashed = <<>>
    /\ report = <<>>
    /\ r_raised = FALSE
    /\ scandir_reversed \in BOOLEAN
    /\ previous = <<>>
    /\ CollectNotCalled
    /\ MatchIdle
    /\ GrokIdle
    /\ AuditIdle
    /\ ScriptsIdle

SpecReport == InitReport /\ [][NextReport]_vars

(***************************************************************************)
(* Two runs of build_report over the same filesystem, one after the other  *)
(* (o3.py:251-256 run twice); os.scandir may enumerate differently in the  *)
(* second run.                                                             *)
(***************************************************************************)
NoReport == <<>>

\* the first run has returned its report; the second run starts
ReportAgain ==
    /\ r_pc = "done"
    /\ ~r_raised
    /\ previous = NoReport
    /\ previous' = report
    /\ scandir_reversed' \in BOOLEAN
    /\ r_pc' = "start"
    /\ walk_stack' = <<>>
    /\ visited_dirs' = {}
    /\ ext_counter' = <<>>
    /\ ext_size' = <<>>
    /\ file_sizes' = <<>>
    /\ dir_sizes' = <<>>
    /\ hashed' = <<>>
    /\ report' = NoReport
    /\ r_raised' = FALSE
    /\ UNCHANGED <<fs, start_path, follow_symlinks>>
    /\ UNCHANGED <<scan_root, top_n, include_dupes>>
    /\ UNCHANGED other_than_report

NextReportTwice ==
    ReportBeginScan \/ ReportScanStep \/ ReportBuild \/ ReportWithoutDupes
        \/ ReportAgain

\* the calls of build_report without duplicate detection
InitReportTwice == InitReport /\ ~include_dupes

SpecReportTwice == InitReportTwice /\ [][NextReportTwice]_vars

(***************************************************************************)
(* build_report on a filesystem that changes while it runs: a file that    *)
(* scan has recorded is deleted or made unreadable by another process, so  *)
(* that a later stat of it raises FileNotFoundError or PermissionError.    *)
(***************************************************************************)

\* the entries the recorded paths lead to
RecordedEntries == {Resolve(Last(file_sizes[i].path)) : i \in 1..Len(file_sizes)}

\* the first entry to turn inaccessible, while build_report runs
FileTurnsInaccessible ==
    /\ r_pc \in {"scan", "built"}
    /\ \A m \in Nodes : fs[m].access = "ok"
    /\ \E n \in RecordedEntries : fs' = [fs EXCEPT ![n].access = "nostat"]
    /\ UNCHANGED <<start_path, follow_symlinks, walk_stack, visited_dirs>>
    /\ UNCHANGED report_vars
    /\ UNCHANGED other_than_report

NextReportChanging == NextReport \/ FileTurnsInaccessible

\* the calls of build_report on a tree whose entries are all accessible at
\* the start
InitReportChanging ==
    /\ InitReport
    /\ \A m \in Nodes : fs[m].access = "ok"
    /\ top_n \in {1, DefaultTop}
    /\ ~scandir_reversed

SpecReportChanging == InitReportChanging /\ [][NextReportChanging]_vars

(***************************************************************************)
(* collect_file_paths and scan (o3.py) as processes that keep running: a   *)
(* call that has started takes its next step as long as it has one (the    *)
(* interpreter runs the loop of os.walk to its end; nothing else is        *)
(* scheduled).                                                             *)
(***************************************************************************)
NextScans ==
    NextCollect \/ ReportBeginScan \/ ReportScanStep \/ ReportBuild

\* every call of collect_file_paths, and every call of scan from
\* build_report with the default top_n and no duplicate detection, on the
\* trees that hold a symbolic link
InitScans ==
    /\ \/ InitCollect
       \/ InitReport /\ top_n = DefaultTop /\ ~include_dupes
    /\ fs[3].kind = "link"

SpecScansFair == InitScans /\ [][NextScans]_vars /\ WF_vars(NextScans)

(***************************************************************************)
(* The filesystems scan_directory (grok.py, 4o.py) walks: the shape of     *)
(* TreeParent with the names of ReportNames; the content of a regular file *)
(* is drawn from contents and the access of every entry but the root and   *)
(* the links from accesses.                                                *)
(***************************************************************************)
TreeFileSystems(contents, accesses) ==
    { f \in
        { << FileEntry(1, "dir", NoNode, <<>>, "ok"),
             FileEntry(2, k[1], NoNode, c[1], a[1]),
             FileEntry(3, k[2], t3, c[2], IF k[2] = "link" THEN "ok" ELSE a[2]),
             FileEntry(4, k[3], NoNode, c[3], a[3]),
             FileEntry(5, "file", NoNode, c[4], a[4]),
             FileEntry(6, "file", NoNode, c[5], a[5]),
             FileEntry(7, "file", NoNode, c[6], a[6]) >> :
            k \in KindsOf(2) \X KindsOf(3) \X KindsOf(4),
            t3 \in LinkTargets,
            c \in contents \X contents \X contents \X contents \X contents \X contents,
            a \in accesses \X accesses \X accesses \X accesses \X accesses \X accesses } :
        \* what does not exist does not vary
        \A n \in 2..6 :
           LET there == CASE n = 4 -> f[2].kind = "dir"
                          [] n = 5 -> f[3].kind = "dir"
                          [] n = 6 -> f[2].kind = "dir" /\ f[4].kind = "dir"
                          [] OTHER -> TRUE
               first == CHOOSE x \in contents : \A y \in contents : Len(x) <= Len(y)
           IN /\ ~there => (f[n].kind = "file" /\ f[n].access = "ok")
              /\ (~there \/ f[n].kind # "file") => f[n].content \in {<<>>, first} }

(***************************************************************************)
(* scan_directory and get_file_metadata (grok.py:28-84).                   *)
(***************************************************************************)

\* DirEntry.is_dir() as os.walk calls it: the entry type of a directory
\* listing for anything but a link, a stat of the target for a link
WalkIsDir(P) ==
    PathIsDir(P) /\ (PathIsLink(P) => StatOutcome(P) = "ok")

\* os.scandir(P) succeeds
CanList(P) == StatOutcome(P) = "ok"

DotNone == <<".", "n", "o", "n", "e">>
DotError == <<".", "e", "r", "r", "o", "r">>

\* get_file_metadata(file_path) (lines 28-55); size_mb and modified are
\* further fields computed from the same stat result
GetFileMetadata(file_path) ==
    IF StatOutcome(file_path) = "ok"
    THEN [path |-> file_path,
          name |-> fs[Last(file_path)].name,
          extension |-> IF Suffix(fs[Last(file_path)].name) = <<>> THEN DotNone
                        ELSE Lower(Suffix(fs[Last(file_path)].name)),
          size_bytes |-> SizeOf(Resolve(Last(file_path))),
          is_dir |-> PathIsDir(file_path)]
    ELSE [path |-> file_path,
          name |-> fs[Last(file_path)].name,
          extension |-> DotError,
          size_bytes |-> 0,
          is_dir |-> FALSE,
          error |-> StatOutcome(file_path)]

\* lines 78-82: the record of a file is kept
KeepsFile(metadata) == "error" \notin DOMAIN metadata

\* os.walk(root_path, followlinks=False) starts (line 66)
GrokBeginWalk ==
    /\ g_pc = "start"
    /\ walk_stack' = IF PathIsDir(<<start_path>>) THEN <<<<start_path>>>> ELSE <<>>
    /\ g_pc' = "walk"
    /\ UNCHANGED <<fs, start_path, follow_symlinks, visited_dirs>>
    /\ UNCHANGED <<root_above, file_data, dir_count, file_count, errors, analysis>>
    /\ UNCHANGED other_than_grok

\* os.walk cannot list the next directory: the error is swallowed and the
\* directory yields nothing
GrokWalkSkip ==
    /\ g_pc = "walk"
    /\ walk_stack # <<>>
    /\ ~CanList(Head(walk_stack))
    /\ walk_stack' = Tail(walk_stack)
    /\ UNCHANGED <<fs, start_path, follow_symlinks, visited_dirs>>
    /\ UNCHANGED <<root_above, g_pc, file_data, dir_count, file_count, errors, analysis>>
    /\ UNCHANGED other_than_grok

\* one iteration of the for loop over os.walk (lines 66-82)
GrokWalkStep ==
    /\ g_pc = "walk"
    /\ walk_stack # <<>>
    /\ CanList(Head(walk_stack))
    /\ LET root == Head(walk_stack)
           entries == ScanDir(root)
           dirs == SelectSeq(entries, LAMBDA e : WalkIsDir(Append(root, e)))
           files == SelectSeq(entries, LAMBDA e : ~WalkIsDir(Append(root, e)))
           dir_records == [k \in 1..Len(dirs) |-> GetFileMetadata(Append(root, dirs[k]))]
           file_records == [k \in 1..Len(files) |-> GetFileMetadata(Append(root, files[k]))]
           kept == SelectSeq(file_records, KeepsFile)
           failed == SelectSeq(file_records, LAMBDA m : ~KeepsFile(m))
       IN /\ file_data' = file_data \o dir_records \o kept
          /\ dir_count' = dir_count + Len(dirs)
          /\ file_count' = file_count + Len(kept)
          /\ errors' = errors \o [k \in 1..Len(failed) |->
                                     [path |-> failed[k].path, error |-> failed[k].error]]
          /\ walk_stack' = WalkInto(root, dirs) \o Tail(walk_stack)
          /\ visited_dirs' = visited_dirs \cup {root}
    /\ UNCHANGED <<fs, start_path, follow_symlinks, root_above, g_pc, analysis>>
    /\ UNCHANGED other_than_grok

\* line 84
GrokReturn ==
    /\ g_pc = "walk"
    /\ walk_stack = <<>>
    /\ g_pc' = "done"
    /\ UNCHANGED <<fs, start_path, follow_symlinks, walk_stack, visited_dirs>>
    /\ UNCHANGED <<root_above, file_data, dir_count, file_count, errors, analysis>>
    /\ UNCHANGED other_than_grok

\* the names from entry 1 of the tree down to entry n
RECURSIVE NamesDownTo(_)
NamesDownTo(n) ==
    IF n \notin Nodes THEN <<>> ELSE Append(NamesDownTo(TreeParent[n]), fs[n].name)

\* pathlib.Path(item["path"]).parts for the path of a record: root_path is
\* absolute (line 158), so the parts begin at the anchor "/"
Parts(file_path) ==
    root_above \o NamesDownTo(file_path[1])
               \o [k \in 1..(Len(file_path) - 1) |-> fs[file_path[k + 1]].name]

\* line 98
DepthOfItem(item) == Len(Parts(item.path))

\* analyze_file_data(file_data) (lines 87-104); a size is kept in bytes,
\* size_mb is that number divided by 1024 * 1024
RECURSIVE AnalyzeFileData(_)
AnalyzeFileData(data) ==
    IF data = <<>>
    THEN [extension_counts |-> <<>>, size_by_extension |-> <<>>,
          depth_distribution |-> <<>>]
    ELSE LET before == AnalyzeFileData(SubSeq(data, 1, Len(data) - 1))
             item == data[Len(data)]
         IN IF item.is_dir THEN before
            ELSE [extension_counts |-> DictAdd(before.extension_counts, item.extension, 1),
                  size_by_extension |->
                      DictAdd(before.size_by_extension, item.extension, item.size_bytes),
                  depth_distribution |->
                      DictAdd(before.depth_distribution, DepthOfItem(item), 1)]

\* main, line 167
GrokAnalyze ==
    /\ g_pc = "done"
    /\ analysis' = AnalyzeFileData(file_data)
    /\ g_pc' = "analysed"
    /\ UNCHANGED <<fs, start_path, follow_symlinks, walk_stack, visited_dirs>>
    /\ UNCHANGED <<root_above, file_data, dir_count, file_count, errors>>
    /\ UNCHANGED other_than_grok

NextGrok == GrokBeginWalk \/ GrokWalkSkip \/ GrokWalkStep \/ GrokReturn \/ GrokAnalyze

\* the absolute paths the parent of the tree may have: "/", "/t", "/t/t", ...
AbovePaths ==
    {[k \in 1..n |-> IF k = 1 THEN <<"/">> ELSE <<"t">>] : n \in 1..(MaxAbove + 1)}


\* every call of scan_directory on every filesystem of the model; an entry
\* of access "nostat" is one that cannot be stat-ed or listed
InitGrok ==
    /\ fs \in TreeFileSystems({<<"x">>}, {"ok", "nostat"})
    /\ start_path \in {1, 2}
    /\ follow_symlinks = FALSE
    /\ root_above \in AbovePaths
    /\ g_pc = "start"
    /\ walk_stack = <<>>
    /\ visited_dirs = {}
    /\ file_data = <<>>
    /\ dir_count = 0
    /\ file_count = 0
    /\ errors = <<>>
    /\ analysis = <<>>
    /\ CollectNotCalled
    /\ MatchIdle
    /\ ReportIdle
    /\ AuditIdle
    /\ ScriptsIdle

SpecGrok == InitGrok /\ [][NextGrok]_vars

(***************************************************************************)
(* scan_directory (4o.py:26-79) on trees whose entries are all accessible. *)
(* The inner scan(path, depth) is recursive: a_stack holds one frame per   *)
(* active call, the innermost first, with the entries its for loop has     *)
(* still to visit.                                                         *)
(***************************************************************************)
DefaultMaxDepth == 5   \* def scan_directory(base_path, max_depth=5)
TopTen == 10           \* sorted(...)[:10] (4o.py:73-74)

\* depth of path P below the base path (the base path has depth 0)
DepthOf(P) == Len(P) - 1

\* os.path.splitext(name)[1]: what starts at the last dot, unless only dots
\* come before it
SplitExt(name) ==
    IF \E k \in 1..(LastDot(name) - 1) : name[k] # "."
    THEN SubSeq(name, LastDot(name), Len(name))
    ELSE <<>>

\* os.path.join(path, entry.name) as a string, from the base path down
FullPath(P) ==
    LET JoinNames[k \in 1..Len(P)] ==
            IF k = 1 THEN fs[P[1]].name ELSE JoinNames[k - 1] \o <<"/">> \o fs[P[k]].name
    IN JoinNames[Len(P)]

\* the tuple x = (number, path) is greater than y
TupleGreater(x, y) ==
    x[1] > y[1] \/ (x[1] = y[1] /\ StrLess(FullPath(y[2]), FullPath(x[2])))

\* sorted(seq, reverse=True) on (number, path) tuples no two of which are equal
SortedTuplesDesc(seq) ==
    LET Rank(k) == 1 + Cardinality({l \in 1..Len(seq) : TupleGreater(seq[l], seq[k])})
    IN [r \in 1..Len(seq) |-> seq[CHOOSE k \in 1..Len(seq) : Rank(k) = r]]

\* line 37: scan(path, depth) returns {} at once
BeyondDepth(depth) == depth > max_depth

\* the frame of a call scan(path, depth), none when it returns at once
Call(path, depth) ==
    IF BeyondDepth(depth) THEN <<>>
    ELSE <<[path |-> path, depth |-> depth, todo |-> ScanDir(path)]>>

\* the directories scandir is called on by a call scan(path, depth)
Listing(path, depth) == IF BeyondDepth(depth) THEN {} ELSE {path}

\* line 67: scan(base_path, 0)
AuditBegin ==
    /\ a_pc = "start"
    /\ a_stack' = Call(<<start_path>>, 0)
    /\ listed' = Listing(<<start_path>>, 0)
    /\ a_pc' = "scan"
    /\ UNCHANGED <<fs, start_path, follow_symlinks, walk_stack, visited_dirs>>
    /\ UNCHANGED <<max_depth, total_files, total_dirs, file_extensions,
                   largest_files, recent_files, directory_tree>>
    /\ UNCHANGED other_than_audit

\* one iteration of the for loop of the innermost call (lines 43-59)
AuditEntry ==
    /\ a_pc = "scan"
    /\ a_stack # <<>>
    /\ Head(a_stack).todo # <<>>
    /\ LET frame == Head(a_stack)
           e == Head(frame.todo)
           full_path == Append(frame.path, e)
           rest == <<[frame EXCEPT !.todo = Tail(frame.todo)]>> \o Tail(a_stack)
           ext == Lower(SplitExt(fs[e].name))
       IN CASE fs[e].kind = "dir" ->
                 /\ total_dirs' = total_dirs + 1
                 /\ directory_tree' = directory_tree \cup {full_path}
                 /\ a_stack' = Call(full_path, frame.depth + 1) \o rest
                 /\ listed' = listed \cup Listing(full_path, frame.depth + 1)
                 /\ UNCHANGED <<total_files, file_extensions, largest_files, recent_files>>
            [] fs[e].kind = "file" ->
                 /\ total_files' = total_files + 1
                 /\ file_extensions' = DictAdd(file_extensions, ext, 1)
                 /\ largest_files' = Append(largest_files, <<SizeOf(e), full_path>>)
                 /\ recent_files' = Append(recent_files, <<ModifiedAt[e], full_path>>)
                 /\ a_stack' = rest
                 /\ UNCHANGED <<total_dirs, directory_tree, listed>>
            [] OTHER ->
                 /\ a_stack' = rest
                 /\ UNCHANGED <<total_files, total_dirs, file_extensions, largest_files,
                                recent_files, directory_tree, listed>>
    /\ UNCHANGED <<fs, start_path, follow_symlinks, walk_stack, visited_dirs>>
    /\ UNCHANGED <<max_depth, a_pc>>
    /\ UNCHANGED other_than_audit

\* the for loop of the innermost call is exhausted, the call returns (line 65)
AuditLeave ==
    /\ a_pc = "scan"
    /\ a_stack # <<>>
    /\ Head(a_stack).todo = <<>>
    /\ a_stack' = Tail(a_stack)
    /\ UNCHANGED <<fs, start_path, follow_symlinks, walk_stack, visited_dirs>>
    /\ UNCHANGED <<max_depth, a_pc, total_files, total_dirs, file_extensions,
                   largest_files, recent_files, directory_tree, listed>>
    /\ UNCHANGED other_than_audit

\* lines 72-79: the outermost call has returned
AuditReturn ==
    /\ a_pc = "scan"
    /\ a_stack = <<>>
    /\ largest_files' = SliceTo(SortedTuplesDesc(largest_files), TopTen)
    /\ recent_files' = SliceTo(SortedTuplesDesc(recent_files), TopTen)
    /\ file_extensions' = SortedDesc(file_extensions, ByVal(file_extensions))
    /\ a_pc' = "done"
    /\ UNCHANGED <<fs, start_path, follow_symlinks, walk_stack, visited_dirs>>
    /\ UNCHANGED <<max_depth, a_stack, total_files, total_dirs, directory_tree, listed>>
    /\ UNCHANGED other_than_audit

NextAudit == AuditBegin \/ AuditEntry \/ AuditLeave \/ AuditReturn

\* every call of scan_directory on a directory of every accessible tree
InitAudit ==
    /\ fs \in TreeFileSystems({<<>>, <<"x">>}, {"ok"})
    /\ start_path \in {1, 2}
    /\ fs[start_path].kind = "dir"
    /\ max_depth \in (0..MaxDepth) \cup {DefaultMaxDepth}
    /\ follow_symlinks = FALSE
    /\ walk_stack = <<>>
    /\ visited_dirs = {}
    /\ a_pc = "start"
    /\ a_stack = <<>>
    /\ total_files = 0
    /\ total_dirs = 0
    /\ file_extensions = <<>>
    /\ largest_files = <<>>
    /\ recent_files = <<>>
    /\ directory_tree = {}
    /\ listed = {}
    /\ CollectNotCalled
    /\ MatchIdle
    /\ ReportIdle
    /\ GrokIdle
    /\ ScriptsIdle

SpecAudit == InitAudit /\ [][NextAudit]_vars

(***************************************************************************)
(* ai_code_parallel_with_claude_code                                       *)
(* (bonus/claude_code_inside_openai_agent_sdk_4_bonus.py:378-473).         *)
(*                                                                         *)
(* One run_prompt task per prompt; each starts a claude subprocess and     *)
(* waits for it.  The tasks run concurrently on the event loop: they start *)
(* and finish in any order.  A text is a list of pieces, each a string or  *)
(* a formatted number; the output of a subprocess and the message of an    *)
(* exception are single pieces.                                            *)
(***************************************************************************)
\* the pieces of a text
Str(s) == [text |-> s]
Num(n) == [number |-> n]

Prompts == {"p", "q"}

\* how a claude subprocess can end: return code, stdout and stderr
Exits ==
    { [returncode |-> 0, stdout |-> "out1", stderr |-> ""],
      [returncode |-> 0, stdout |-> "out2", stderr |-> "warning"],
      [returncode |-> 1, stdout |-> "", stderr |-> "err1"],
      [returncode |-> 2, stdout |-> "out1", stderr |-> ""] }

\* the exceptions create_subprocess_exec or communicate can raise
Raised == { [raised |-> "FileNotFoundError: claude"] }

NoExit == [pending |-> TRUE]
NoResult == <<>>

\* lines 435-444: the text run_prompt returns after the subprocess has ended
TextOfExit(exit) ==
    IF exit.returncode = 0 THEN <<Str(exit.stdout)>>
    ELSE <<Str("Error executing Claude Code: ")>> \o
         (IF exit.stderr # "" THEN <<Str(exit.stderr)>>
          ELSE <<Str("Process exited with return code "), Num(exit.returncode)>>)

\* lines 446-448: the text run_prompt returns after an exception
TextOfException(e) ==
    <<Str("Unexpected error running Claude Code: "), Str(e.raised)>>

\* asyncio.gather(*tasks): the results in the order of the tasks passed
Gather(ts) == [k \in 1..Len(ts) |-> ts[k].result]

\* (mutant) a sort by index that puts the greatest index first
RECURSIVE SortedByIndexReversed(_)
SortedByIndexReversed(results) ==
    IF results = <<>> THEN <<>>
    ELSE LET last == Len(results)
             n == Cardinality({k \in 1..(last - 1) :
                                  results[k][1] >= results[last][1]})
         IN Only({ SubSeq(front, 1, n) \o <<results[last]>>
                       \o SubSeq(front, n + 1, Len(front)) :
                   front \in {SortedByIndexReversed(SubSeq(results, 1, last - 1))} })

\* sorted(results, key=lambda x: x[0]) (line 460): a stable sort
RECURSIVE SortedByIndex(_)
SortedByIndex(results) ==
    IF results = <<>> THEN <<>>
    ELSE LET last == Len(results)
             \* results[last] goes behind every entry whose index is <= its own
             n == Cardinality({k \in 1..(last - 1) :
                                  results[k][1] <= results[last][1]})
         IN Only({ SubSeq(front, 1, n) \o <<results[last]>>
                       \o SubSeq(front, n + 1, Len(front)) :
                   front \in {SortedByIndex(SubSeq(results, 1, last - 1))} })

SectionOpen == Str("\n\n--- RESULT FROM PROMPT ")
SectionClose == Str(" ---\n\n")

\* lines 463-467: "".join of one section per entry of sorted_results, the
\* i-th (from 0) titled with i + 1
RECURSIVE CombinedResults(_)
CombinedResults(sorted_results) ==
    IF sorted_results = <<>> THEN <<>>
    ELSE LET i == Len(sorted_results) - 1
         IN CombinedResults(SubSeq(sorted_results, 1, i))
                \o <<SectionOpen, Num(i + 1), SectionClose>> \o sorted_results[i + 1][2]

\* line 454: one task per prompt, with its index from 0
ParallelBegin ==
    /\ p_pc = "start"
    /\ tasks' = [k \in 1..Len(ai_coding_prompts) |->
                    [prompt_index |-> k - 1, prompt |-> ai_coding_prompts[k],
                     state |-> "created", exit |-> NoExit, result |-> NoResult]]
    /\ p_pc' = "gather"
    /\ UNCHANGED <<ai_coding_prompts, finish_order, result_str>>
    /\ UNCHANGED other_than_parallel

\* a task runs up to the await of communicate (lines 403-433), or
\* create_subprocess_exec raises and the task returns (lines 446-448)
TaskStarts ==
    /\ p_pc = "gather"
    /\ \E k \in 1..Len(tasks) :
          /\ tasks[k].state = "created"
          /\ \/ /\ tasks' = [tasks EXCEPT ![k].state = "running"]
                /\ UNCHANGED finish_order
             \/ \E e \in Raised :
                   /\ tasks' = [tasks EXCEPT
                                   ![k].state = "finished",
                                   ![k].exit = e,
                                   ![k].result = <<tasks[k].prompt_index,
                                                   TextOfException(e)>>]
                   /\ finish_order' = Append(finish_order, k)
    /\ UNCHANGED <<ai_coding_prompts, p_pc, result_str>>
    /\ UNCHANGED other_than_parallel

\* the subprocess of a task ends, or communicate raises, and the task
\* returns (lines 433-448)
TaskFinishes ==
    /\ p_pc = "gather"
    /\ \E k \in 1..Len(tasks) :
          /\ tasks[k].state = "running"
          /\ \E exit \in Exits \cup Raised :
                tasks' = [tasks EXCEPT
                            ![k].state = "finished",
                            ![k].exit = exit,
                            ![k].result =
                                <<tasks[k].prompt_index,
                                  IF exit \in Raised THEN TextOfException(exit)
                                  ELSE TextOfExit(exit)>>]
          /\ finish_order' = Append(finish_order, k)
    /\ UNCHANGED <<ai_coding_prompts, p_pc, result_str>>
    /\ UNCHANGED other_than_parallel

\* every task has finished: gather returns, the results are sorted and
\* combined (lines 457-473)
ParallelReturn ==
    /\ p_pc = "gather"
    /\ \A k \in 1..Len(tasks) : tasks[k].state = "finished"
    /\ result_str' = CombinedResults(SortedByIndex(Gather(tasks)))
    /\ p_pc' = "done"
    /\ UNCHANGED <<ai_coding_prompts, tasks, finish_order>>
    /\ UNCHANGED other_than_parallel

NextParallel == ParallelBegin \/ TaskStarts \/ TaskFinishes \/ ParallelReturn

\* every call with at most MaxPrompts prompts
InitParallel ==
    /\ ai_coding_prompts \in SeqsUpTo(Prompts, MaxPrompts)
    /\ p_pc = "start"
    /\ tasks = <<>>
    /\ finish_order = <<>>
    /\ result_str = <<>>
    /\ ExplorerIdle
    /\ VoiceIdle
    /\ ConverterIdle

SpecParallel == InitParallel /\ [][NextParallel]_vars

(***************************************************************************)
(* The voice assistant of voice_to_claude_code.py: main, conversation_loop,*)
(* listen and process_message of one ClaudeCodeAssistant.  A message is a  *)
(* list of words; speaking a response changes nothing the model holds.     *)
(***************************************************************************)
TRIGGER_WORDS == <<"claude", "cloud", "sonnet", "sonny">>

\* str.lower() on a word
LowerWord(w) ==
    CASE w = "Claude" -> "claude"
      [] w = "Cloudy" -> "cloudy"
      [] OTHER -> w

\* the lower-case words a trigger word is a substring of
Within(trigger) ==
    CASE trigger = "claude" -> {"claude"}
      [] trigger = "cloud" -> {"cloud", "cloudy"}
      [] trigger = "sonnet" -> {"sonnet"}
      [] trigger = "sonny" -> {"sonny"}

\* any(trigger.lower() in message.lower() for trigger in TRIGGER_WORDS)
HasTrigger(message) ==
    \E i \in 1..Len(TRIGGER_WORDS) : \E k \in 1..Len(message) :
        LowerWord(message[k]) \in Within(LowerWord(TRIGGER_WORDS[i]))

\* the values of --prompt; <<>> when the option is absent
ArgPrompts == {<<>>, <<"list", "files">>, <<"ask", "Claude">>}

\* what the recorder hears; <<>> when nothing is heard before the timeout
Heard == {<<>>, <<"hello">>, <<"sonny", "test">>}

\* how subprocess.run(cmd, check=True) can end: it returns with exit code
\* 0, raises CalledProcessError for another exit code, or raises an OSError
\* when the executable cannot be started
Runs ==
    {[returncode |-> 0, stdout |-> <<"reply">>],
     [returncode |-> 1, stdout |-> <<>>],
     [oserror |-> "FileNotFoundError: claude"]}
NotStarted == {r \in Runs : DOMAIN r = {"oserror"}}

error_response ==
    <<"I'm sorry, but I encountered an error while processing your request. Please try again.">>

\* yaml.dump(history, default_flow_style=False): the keys of an entry in
\* sorted order, one line each, the first after "- "; "[]" for no entry
RECURSIVE YamlDump(_)
YamlDump(history) ==
    IF history = <<>> THEN <<[lead |-> "", key |-> "", scalar |-> <<"[]">>]>>
    ELSE IF Len(history) = 1
    THEN <<[lead |-> "- ", key |-> "content", scalar |-> history[1].content],
           [lead |-> "  ", key |-> "role", scalar |-> <<history[1].role>>]>>
    ELSE YamlDump(<<Head(history)>>) \o YamlDump(Tail(history))

\* yaml.safe_load of such a file: None for an empty file, which
\* load_conversation_history turns into []
RECURSIVE YamlLoad(_)
YamlLoad(lines) ==
    IF lines = <<>> THEN <<>>
    ELSE IF lines[1].key = "" THEN <<>>
    ELSE <<[role |-> lines[2].scalar[1], content |-> lines[1].scalar]>>
         \o YamlLoad(SubSeq(lines, 3, Len(lines)))

\* save_conversation_history: the file is rewritten, or opening it fails and
\* the error is only logged
SaveConversationHistory(history, can_save) ==
    IF can_save THEN YamlDump(history) ELSE conversation_file

\* process_message(message), called by caller, when the subprocess ends as
\* run and the file can or cannot be written
ProcessMessage(caller, message, run, can_save) ==
    /\ handed' = Append(handed, [by |-> caller, message |-> message])
    /\ IF ~HasTrigger(message)
       THEN UNCHANGED <<conversation_history, conversation_file, claude_calls>>
       ELSE \E asked \in {Append(conversation_history,
                                 [role |-> "user", content |-> message])} :
            /\ claude_calls' = Append(claude_calls, asked)
            /\ IF run \in NotStarted
               THEN /\ conversation_history' = asked
                    /\ UNCHANGED conversation_file
               ELSE \E answered \in {Append(asked,
                        [role |-> "assistant",
                         content |-> IF run.returncode = 0 THEN run.stdout
                                     ELSE error_response])} :
                    /\ conversation_history' = answered
                    /\ conversation_file' = SaveConversationHistory(answered, can_save)

\* the call raised: the message had a trigger word and the subprocess could
\* not be started
Raises(message, run) == HasTrigger(message) /\ run \in NotStarted

\* main, lines 582-597: the initial prompt, when given, is processed with
\* the first trigger word in front
MainInitialPrompt ==
    /\ v_pc = "main"
    /\ IF args_prompt # <<>>
       THEN \E run \in Runs, can_save \in BOOLEAN :
            \E message \in {<<TRIGGER_WORDS[1]>> \o args_prompt} :
                /\ ProcessMessage("main", message, run, can_save)
                /\ v_pc' = IF Raises(message, run) THEN "crashed" ELSE "listen"
       ELSE /\ v_pc' = "listen"
            /\ UNCHANGED <<conversation_history, conversation_file,
                           claude_calls, handed>>
    /\ UNCHANGED <<args_prompt, initial_prompt, resumed, user_text>>
    /\ UNCHANGED other_than_voice

\* user_text = await self.listen()
Listen ==
    /\ v_pc = "listen"
    /\ Len(handed) < MaxTurns
    /\ IF initial_prompt # <<>>
       THEN /\ user_text' = initial_prompt
            /\ initial_prompt' = <<>>
       ELSE /\ user_text' \in Heard
            /\ UNCHANGED initial_prompt
    /\ v_pc' = "heard"
    /\ UNCHANGED <<args_prompt, conversation_history, conversation_file,
                   resumed, claude_calls, handed>>
    /\ UNCHANGED other_than_voice

\* the rest of one turn of conversation_loop, lines 500-515; an exception
\* ends the loop
LoopTurn ==
    /\ v_pc = "heard"
    /\ IF user_text = <<>>
       THEN /\ v_pc' = "listen"
            /\ UNCHANGED <<conversation_history, conversation_file,
                           claude_calls, handed>>
       ELSE \E run \in Runs, can_save \in BOOLEAN :
                /\ ProcessMessage("conversation_loop", user_text, run, can_save)
                /\ v_pc' = IF Raises(user_text, run) THEN "stopped" ELSE "listen"
    /\ UNCHANGED <<args_prompt, initial_prompt, resumed, user_text>>
    /\ UNCHANGED other_than_voice

NextVoice == MainInitialPrompt \/ Listen \/ LoopTurn

\* the conversations a run can resume: no file, an empty list, one exchange
StoredHistories ==
    {<<>>,
     <<[role |-> "user", content |-> <<"claude", "hello">>],
       [role |-> "assistant", content |-> <<"reply">>]>>}
StoredFiles == {<<>>} \cup {YamlDump(h) : h \in StoredHistories}

\* the state main is in once the assistant is constructed
InitVoice ==
    /\ args_prompt \in ArgPrompts
    /\ initial_prompt = args_prompt
    /\ conversation_file \in StoredFiles
    /\ conversation_history = YamlLoad(conversation_file)
    /\ resumed = conversation_history
    /\ v_pc = "main"
    /\ user_text = <<>>
    /\ claude_calls = <<>>
    /\ handed = <<>>
    /\ ExplorerIdle
    /\ ParallelIdle
    /\ ConverterIdle

SpecVoice == InitVoice /\ [][NextVoice]_vars

(***************************************************************************)
(* The task converter of tasks_to_markdown.py: generate_markdown writes    *)
(* the Markdown of tasks.json, the user may edit checkboxes, and           *)
(* update_tasks_json_from_markdown reads the checkboxes back.  A line of   *)
(* the Markdown is a list of tokens; the patterns the update looks for     *)
(* ("- [x]", "- [ ]", "**Task ", ":", ".") are made of whole tokens.  The  *)
(* tasks carry the keys id, title, status and subtasks; ids count from 1.  *)
(***************************************************************************)
Digits == <<"0", "1", "2", "3", "4", "5", "6", "7", "8", "9">>

\* str(n) for a number of one digit
IdText(n) == <<Digits[n + 1]>>

\* the tokens int() accepts, and its value
IsNumber(tokens) ==
    Len(tokens) = 1 /\ \E k \in 1..Len(Digits) : Digits[k] = tokens[1]
IntOf(tokens) == (CHOOSE k \in 1..Len(Digits) : Digits[k] = tokens[1]) - 1

Statuses == {"pending", "done", "in-progress"}

\* titles: a plain one, and one that quotes a checked box
Titles == {<<"Setup">>, <<"Fix", " ", "[x]", " ", "parsing">>}
SubtaskTitle == <<"Step">>

\* "[x]" if task["status"] == "done" else "[ ]"
CheckboxOf(status) == IF status = "done" THEN "[x]" ELSE "[ ]"

\* "  " * level
Indent(level) == [k \in 1..level |-> "  "]

\* f"{parent_id}.{task_id}" if parent_id else str(task_id); 0 is None
DisplayId(parent_id, task_id) ==
    IF parent_id # 0 THEN IdText(parent_id) \o <<".">> \o IdText(task_id)
    ELSE IdText(task_id)

\* format_task_as_markdown(task, level, tasks_dict, parent_id), as lines
RECURSIVE FormatTaskAsMarkdown(_, _, _)
RECURSIVE FormatSubtasks(_, _, _)
FormatTaskAsMarkdown(task, level, parent_id) ==
    <<Indent(level) \o <<"-", " ", CheckboxOf(task.status), " ", "**Task ">>
          \o DisplayId(parent_id, task.id) \o <<":", "** ">> \o task.title,
      Indent(level) \o <<"  ", "-", " ", "Status: ", task.status>>>>
    \o (IF task.subtasks # <<>>
        THEN <<Indent(level) \o <<"  ", "-", " ", "Subtasks:">>>>
             \o FormatSubtasks(task.subtasks, level + 2, task.id)
        ELSE <<>>)
FormatSubtasks(subtasks, level, parent_id) ==
    IF subtasks = <<>> THEN <<>>
    ELSE FormatTaskAsMarkdown(Head(subtasks), level, parent_id)
         \o FormatSubtasks(Tail(subtasks), level, parent_id)

\* count_subtasks(tasks)
RECURSIVE CountSubtasks(_)
CountSubtasks(task_list) ==
    IF task_list = <<>> THEN [total |-> 0, completed |-> 0]
    ELSE LET rest == CountSubtasks(Tail(task_list))
             subs == Head(task_list).subtasks
         IN [total |-> rest.total + Len(subs),
             completed |-> rest.completed
                 + Cardinality({k \in 1..Len(subs) : subs[k].status = "done"})]

\* the lines of the tasks, an empty line after each main task
RECURSIVE FormatTasks(_)
FormatTasks(task_list) ==
    IF task_list = <<>> THEN <<>>
    ELSE FormatTaskAsMarkdown(Head(task_list), 0, 0) \o <<<<>>>>
         \o FormatTasks(Tail(task_list))

\* generate_markdown(data, output_file): the text written, split at "\n"
GenerateMarkdown(task_list) ==
    <<<<"# ", "Project", " Tasks">>, <<>>,
      <<"*Generated on: ", "now", "*">>, <<>>,
      <<"**Project Progress:** ">>
          \o IdText(Cardinality({k \in 1..Len(task_list) :
                                    task_list[k].status = "done"}))
          \o <<"/">> \o IdText(Len(task_list)) \o <<" main tasks completed (">>
          \o IdText(CountSubtasks(task_list).completed) \o <<"/">>
          \o IdText(CountSubtasks(task_list).total)
          \o <<" subtasks completed)">>,
      <<>>,
      <<"> Note: This Markdown file is generated from the tasks.json file. To mark tasks as complete, ">>,
      <<"> edit the checkboxes in this file and run the conversion script with the --update flag to update tasks.json.">>,
      <<>>,
      <<"## Tasks">>, <<>>>>
    \o FormatTasks(task_list) \o <<<<>>>>

\* pattern in line, for a pattern of whole tokens
Contains(line, pattern) ==
    \E k \in 1..(Len(line) - Len(pattern) + 1) :
        SubSeq(line, k, k + Len(pattern) - 1) = pattern

\* the part of a line before and after the first token tok: split(tok)[0]
\* and what follows it
Before(line, tok) ==
    IF \E k \in 1..Len(line) : line[k] = tok
    THEN SubSeq(line, 1, (CHOOSE k \in 1..Len(line) :
                            line[k] = tok /\ \A j \in 1..(k - 1) : line[j] # tok) - 1)
    ELSE line
After(line, tok) == SubSeq(line, Len(Before(line, tok)) + 2, Len(line))

\* str.strip()
RECURSIVE Strip(_)
Strip(line) ==
    IF line = <<>> THEN <<>>
    ELSE IF Head(line) \in {" ", "  "} THEN Strip(Tail(line))
    ELSE IF line[Len(line)] \in {" ", "  "} THEN Strip(SubSeq(line, 1, Len(line) - 1))
    ELSE line

\* line.strip().split("**Task ")[1].split(":")[0].strip()
TaskMatch(line) == Strip(Before(Before(After(Strip(line), "**Task "), "**Task "), ":"))

\* "done" if is_checked else "pending"
NewStatus(is_checked) == IF is_checked THEN "done" ELSE "pending"

\* the first position of seq whose id is wanted, 0 if there is none
FirstWithId(seq, wanted) ==
    IF \E k \in 1..Len(seq) : seq[k].id = wanted
    THEN CHOOSE k \in 1..Len(seq) :
            seq[k].id = wanted /\ \A j \in 1..(k - 1) : seq[j].id # wanted
    ELSE 0

\* lines 202-213: in every task with the parent id, the first subtask with
\* the subtask id gets the new status
SetSubtaskStatus(task_list, parent_id, subtask_id, new_status) ==
    [k \in 1..Len(task_list) |->
        IF task_list[k].id = parent_id
           /\ FirstWithId(task_list[k].subtasks, subtask_id) # 0
        THEN [task_list[k] EXCEPT
                 !.subtasks[FirstWithId(task_list[k].subtasks, subtask_id)].status
                     = new_status]
        ELSE task_list[k]]

\* lines 220-228: the first task with the id gets the new status
SetTaskStatus(task_list, task_id, new_status) ==
    IF FirstWithId(task_list, task_id) = 0 THEN task_list
    ELSE [task_list EXCEPT ![FirstWithId(task_list, task_id)].status = new_status]

\* the body of the for loop of update_tasks_json_from_markdown for one line;
\* raised when int() rejects the id of a subtask
UpdateLine(task_list, line) ==
    IF ~(Contains(line, <<"-", " ", "[x]">>) \/ Contains(line, <<"-", " ", "[ ]">>))
    THEN [tasks |-> task_list, raised |-> FALSE]
    ELSE IF ~Contains(line, <<"**Task ">>) \/ TaskMatch(line) = <<>>
    THEN [tasks |-> task_list, raised |-> FALSE]
    ELSE Only({
        IF Contains(task_match, <<".">>)
        THEN IF IsNumber(Before(task_match, ".")) /\ IsNumber(After(task_match, "."))
             THEN [tasks |-> SetSubtaskStatus(task_list,
                                 IntOf(Before(task_match, ".")),
                                 IntOf(After(task_match, ".")), new_status),
                   raised |-> FALSE]
             ELSE [tasks |-> task_list, raised |-> TRUE]
        ELSE IF IsNumber(task_match)
             THEN [tasks |-> SetTaskStatus(task_list, IntOf(task_match), new_status),
                   raised |-> FALSE]
             ELSE [tasks |-> task_list, raised |-> FALSE]
        : task_match \in {TaskMatch(line)},
          new_status \in {NewStatus(Contains(line, <<"[x]">>))}})

\* the for loop over the lines
RECURSIVE UpdateLines(_, _)
UpdateLines(task_list, lines) ==
    IF lines = <<>> THEN [tasks |-> task_list, raised |-> FALSE]
    ELSE Only({IF one.raised THEN one ELSE UpdateLines(one.tasks, Tail(lines))
               : one \in {UpdateLine(task_list, Head(lines))}})

\* main without --update: generate_markdown(read_tasks_json(input), output)
Generate ==
    /\ t_pc = "start"
    /\ source_data' = tasks_data
    /\ md_content' = GenerateMarkdown(tasks_data)
    /\ t_pc' = "generated"
    /\ UNCHANGED <<tasks_data, changes_made, json_written, edited>>
    /\ UNCHANGED other_than_converter

\* the lines that show a task, and where their checkbox is
TaskLines == {k \in 1..Len(md_content) : Contains(md_content[k], <<"**Task ">>)}
CheckboxAt(line) == Len(Before(line, "-")) + 3

\* the user checks or unchecks the box of one task in the Markdown file
UserEditsCheckbox ==
    /\ t_pc = "generated"
    /\ Cardinality(edited) < MaxEdits
    /\ \E k \in TaskLines :
        /\ TaskMatch(md_content[k]) \notin edited
        /\ md_content' = [md_content EXCEPT ![k][CheckboxAt(md_content[k])] =
                             IF @ = "[x]" THEN "[ ]" ELSE "[x]"]
        /\ edited' = edited \cup {TaskMatch(md_content[k])}
    /\ UNCHANGED <<tasks_data, source_data, t_pc, changes_made, json_written>>
    /\ UNCHANGED other_than_converter

\* main with --update: update_tasks_json_from_markdown(output, input);
\* changes_made is true when a status was assigned, which the code does
\* only to a status that differs
UpdateTasksJsonFromMarkdown ==
    /\ t_pc = "generated"
    /\ \E after \in {UpdateLines(tasks_data, md_content)} :
        IF after.raised
        THEN /\ t_pc' = "raised"
             /\ UNCHANGED <<tasks_data, changes_made, json_written>>
        ELSE /\ t_pc' = "updated"
             /\ changes_made' = (after.tasks # tasks_data)
             /\ json_written' = (after.tasks # tasks_data)
             /\ tasks_data' = after.tasks
    /\ UNCHANGED <<source_data, md_content, edited>>
    /\ UNCHANGED other_than_converter

NextConverter == Generate \/ UserEditsCheckbox \/ UpdateTasksJsonFromMarkdown

\* the subtask lists and task lists of the inputs
SubtaskLists ==
    {<<>>} \cup
    {[k \in 1..n |-> [id |-> k, title |-> SubtaskTitle, status |-> st[k],
                      subtasks |-> <<>>]] :
        n \in 1..MaxSubtasks, st \in UNION {[1..m -> Statuses] : m \in 1..MaxSubtasks}}
TaskChoices ==
    {[title |-> ti, status |-> st, subtasks |-> su] :
        ti \in Titles, st \in Statuses, su \in SubtaskLists}
TaskLists ==
    {[k \in 1..Len(s) |-> [id |-> k, title |-> s[k].title, status |-> s[k].status,
                           subtasks |-> s[k].subtasks]] :
        s \in SeqsUpTo(TaskChoices, MaxTasks)}

\* every tasks.json with at most MaxTasks tasks, before the converter runs
InitConverter ==
    /\ tasks_data \in TaskLists
    /\ source_data = <<>>
    /\ md_content = <<>>
    /\ t_pc = "start"
    /\ changes_made = FALSE
    /\ json_written = FALSE
    /\ edited = {}
    /\ ExplorerIdle
    /\ ParallelIdle
    /\ VoiceIdle

SpecConverter == InitConverter /\ [][NextConverter]_vars

(***************************************************************************)
(* Properties of fuzzy_match_paths.                                        *)
(***************************************************************************)
MatchDone == m_pc = "done"

One == [num |-> 1, den |-> 1]
Zero == [num |-> 0, den |-> 1]

\* the score of the k-th input path, from the inputs alone
ScoreOf(k) == Ratio(Lower(query), Lower(Basename(paths[k])))

\* the input positions whose score is >= cutoff
Clearing == {k \in 1..Len(paths) : RatGE(ScoreOf(k), cutoff)}

\* the cutoff is a similarity in [0,1]
ValidCutoff == RatGE(cutoff, Zero) /\ RatGE(One, cutoff)

\* how often path p is returned / is an input that clears the cutoff
ReturnedCount(p) == Cardinality({k \in 1..Len(m_result) : m_result[k].path = p})
ClearingCount(p) == Cardinality({k \in Clearing : paths[k] = p})

\* C1: no returned path has a score strictly less than cutoff (and every
\* returned entry is an input path with its own score), and every input path
\* whose score is >= cutoff is returned unless the limit cuts the list: when
\* the limit is at least the number of clearing paths all of them are returned.
C1_CutoffFilter ==
    MatchDone =>
        /\ \A k \in 1..Len(m_result) :
              /\ ~RatLess(m_result[k].score, cutoff)
              /\ \E i \in 1..Len(paths) :
                    paths[i] = m_result[k].path /\ ScoreOf(i) = m_result[k].score
        /\ \A p \in PathUniverse : ReturnedCount(p) <= ClearingCount(p)
        /\ (limit >= Cardinality(Clearing)) =>
              \A p \in PathUniverse : ReturnedCount(p) = ClearingCount(p)

\* a run where one path fails the cutoff, one is returned and one that clears
\* the cutoff is cut off by the limit
C1_Witness ==
    /\ MatchDone
    /\ query # <<>>
    /\ Len(m_result) >= 1
    /\ Cardinality(Clearing) > Len(m_result)
    /\ Cardinality(Clearing) < Len(paths)
    /\ \E k \in Clearing : ScoreOf(k) = cutoff

\* rank order of the specification: score descending, then shorter path,
\* then smaller path string
RankedBefore(x, y) ==
    \/ RatLess(y.score, x.score)
    \/ /\ RatEq(x.score, y.score)
       /\ \/ Len(x.path) < Len(y.path)
          \/ Len(x.path) = Len(y.path) /\ (x.path = y.path \/ StrLess(x.path, y.path))

\* C2: the result is sorted by score descending, ties broken by shorter path
\* string first and then by path string ascending, whatever the input order
\* (stated for calls with a non-empty query, a cutoff in [0,1] and a
\* limit >= 0).
C2_TieBreakOrder ==
    (MatchDone /\ query # <<>> /\ ValidCutoff /\ limit >= 0) =>
        \A k \in 1..(Len(m_result) - 1) : RankedBefore(m_result[k], m_result[k + 1])

\* C3: for every limit >= 0 the result has length
\* min(limit, number of input paths that clear the cutoff).
C3_LengthCap ==
    (MatchDone /\ limit >= 0) => Len(m_result) = Min(limit, Cardinality(Clearing))

\* a run where the limit cuts the list, to a non-empty result
C3_Witness ==
    /\ MatchDone
    /\ limit > 0
    /\ Cardinality(Clearing) > limit
    /\ Len(m_result) = limit

\* C4: an empty path list or a limit <= 0 yields an empty result, no exception
\* (stated for calls with a non-empty query and a cutoff in [0,1]).
C4_EmptyOnNoPathsOrNoLimit ==
    (MatchDone /\ query # <<>> /\ ValidCutoff /\ (paths = <<>> \/ limit <= 0)) =>
        (m_result = <<>> /\ ~m_raised)

\* C5: with an empty query every candidate scores 0 and the result is empty,
\* for every cutoff in [0,1] and every limit.
C5_EmptyQueryMatchesNothing ==
    (MatchDone /\ query = <<>> /\ ValidCutoff) =>
        /\ \A k \in 1..Len(paths) : ScoreOf(k) = Zero
        /\ m_result = <<>>

\* two characters that differ in letter case at most
SameLetter(c, d) ==
    c = d \/ {c, d} \in {{"a", "A"}, {"b", "B"}, {"c", "C"}}

\* two strings that are equal up to letter case
EqualUpToCase(s, t) ==
    Len(s) = Len(t) /\ \A k \in 1..Len(s) : SameLetter(s[k], t[k])

\* the input positions whose basename equals the non-empty query up to
\* letter case
ExactPositions ==
    {k \in 1..Len(paths) : query # <<>> /\ EqualUpToCase(Basename(paths[k]), query)}

\* no entry of lower score is ranked before an entry of path p
NotBelowLower(p) ==
    \A k \in 1..Len(m_result) :
        m_result[k].path = p =>
            \A l \in 1..(k - 1) : ~RatLess(m_result[l].score, m_result[k].score)

\* C6 as stated: a path whose basename equals the non-empty query up to case
\* has score 1.0, is returned under every cutoff <= 1.0, and is not ranked
\* below a candidate of lower score (stated for calls with a cutoff in [0,1]
\* and a limit >= 0).
C6_ExactMatchReturned ==
    (MatchDone /\ ValidCutoff /\ limit >= 0) =>
        \A k \in ExactPositions :
            /\ \E l \in 1..Len(m_result) :
                  m_result[l].path = paths[k] /\ m_result[l].score = One
            /\ NotBelowLower(paths[k])

\* C6 amended: such a path has score 1.0 and clears every cutoff <= 1.0; it is
\* returned whenever the limit is at least the number of inputs of score 1.0;
\* and it is never ranked below a candidate of lower score.
C6_ExactMatchScoresOne ==
    (MatchDone /\ RatGE(One, cutoff)) =>
        \A k \in ExactPositions :
            /\ \E l \in 1..Len(matches) :
                  matches[l].path = paths[k] /\ matches[l].score = One
            /\ (limit >= Cardinality({i \in 1..Len(matches) : matches[i].score = One})) =>
                  \E l \in 1..Len(m_result) :
                      m_result[l].path = paths[k] /\ m_result[l].score = One
            /\ NotBelowLower(paths[k])

\* a run where the query and the basename differ in letter case only, the
\* path is returned, and a candidate of lower score is returned behind it
C6_Witness ==
    /\ MatchDone
    /\ RatGE(One, cutoff)
    /\ \E k \in ExactPositions :
          /\ Basename(paths[k]) # query
          /\ \E l \in 1..Len(m_result) :
                /\ m_result[l].path = paths[k]
                /\ \E n \in (l + 1)..Len(m_result) : RatLess(m_result[n].score, One)

\* length of the longest common subsequence of a and b
RECURSIVE LcsLen(_, _)
LcsLen(a, b) ==
    IF a = <<>> \/ b = <<>> THEN 0
    ELSE LET fa == SubSeq(a, 1, Len(a) - 1)
             fb == SubSeq(b, 1, Len(b) - 1)
         IN IF a[Len(a)] = b[Len(b)] THEN 1 + LcsLen(fa, fb)
            ELSE Max(LcsLen(fa, b), LcsLen(a, fb))

\* length of the longest common contiguous block of a and b
LongestBlock(a, b) ==
    LET sizes == {k \in 0..Min(Len(a), Len(b)) :
                     \E i \in 0..(Len(a) - k), j \in 0..(Len(b) - k) :
                         \A d \in 1..k : a[i + d] = b[j + d]}
    IN CHOOSE x \in sizes : \A y \in sizes : y <= x

BadArguments == limit < 0 \/ RatLess(cutoff, Zero) \/ RatLess(One, cutoff)

C8_BadArgumentsRejected ==
    BadArguments => (m_idx = 0 /\ (MatchDone => (m_raised /\ m_result = <<>>)))


\* C25: for the query "report" with cutoff 0.6 over the candidate paths
\* "root/report_final.csv", "root/reports/old.txt" and "root/x.txt",
\* fuzzy_match_paths returns exactly the first two paths, both with a score
\* >= 0.6, "root/report_final.csv" ranked at or above "root/reports/old.txt",
\* and does not return "root/x.txt".
C25_ReportScenario ==
    ( /\ m_pc = "done"
      /\ query = ReportQuery
      /\ paths = <<ReportFinalCsv, ReportsOldTxt, XTxt>>
      /\ cutoff = DefaultCutoff
      /\ limit = DefaultLimit )
    => /\ Len(m_result) = 2
       /\ m_result[1].path = ReportFinalCsv
       /\ m_result[2].path = ReportsOldTxt
       /\ \A k \in 1..2 : RatGE(m_result[k].score, DefaultCutoff)
       /\ RatGE(m_result[1].score, m_result[2].score)

(***************************************************************************)
(* Properties of collect_file_paths.                                       *)
(***************************************************************************)
CollectDone == c_pc = "done"

\* the name is on the default exclusion list or starts with "."
ExcludedName(d) == d \in ExcludeDirs \/ StartsWithDot(d)

\* os.path.isdir(abs_start_path)
RootIsDir == start_path # NoNode /\ PathIsDir(<<start_path>>)

C10_InvalidRootFails ==
    (CollectDone /\ ~RootIsDir) => (c_raised /\ visited_dirs = {})

\* C11: when follow_symlinks is false, every symbolic link the walk meets (to
\* a file or to a directory) is recorded in the result, once, as an entry of
\* its own; it is never traversed into (no listed directory lies on or below
\* a link) and the file it points to is not recorded in its place.
C11_SymlinkRecorded ==
    (CollectDone /\ ~follow_symlinks) =>
        /\ \A root \in visited_dirs : LinkCount(root) = 0
        /\ \A root \in visited_dirs :
              \A e \in Nodes :
                 (TreeParent[e] = Resolve(Last(root)) /\ fs[e].kind = "link") =>
                    /\ Cardinality({i \in 1..Len(c_result) :
                                       c_result[i] = PathString(Append(root, e))}) = 1
                    /\ \A i \in 1..Len(c_result) :
                          c_result[i] # RealPath(Append(root, e))

\* the entry a list of component names leads to from the scan root, links
\* followed on the way (NoNode when a component names nothing)
RECURSIVE NodeAt(_)
NodeAt(s) ==
    IF Len(s) <= 1 THEN start_path
    ELSE LET d == Resolve(NodeAt(SubSeq(s, 1, Len(s) - 1)))
             below == {n \in Nodes : TreeParent[n] = d /\ fs[n].name = Last(s)}
         IN IF d = NoNode \/ below = {} THEN NoNode ELSE CHOOSE n \in below : TRUE

\* the file a returned path denotes
Denotes(s) == Resolve(NodeAt(s))

\* C12: in every scan, also with follow_symlinks true on a tree where links
\* resolve to the same target or form a cycle, no real path is recorded more
\* than once: no two entries of the returned list denote the same file.
C12_NoRealPathTwice ==
    CollectDone =>
        \A i, j \in 1..Len(c_result) :
            i # j => Denotes(c_result[i]) # Denotes(c_result[j])

(***************************************************************************)
(* Properties of build_report, scan and detect_duplicates (o3.py).         *)
(***************************************************************************)
ReportDone == r_pc = "done"

\* the recorded files, as positions of file_sizes
Recorded == 1..Len(file_sizes)

\* content of the file the i-th recorded path leads to
ContentOf(i) == fs[Resolve(Last(file_sizes[i].path))].content

\* the i-th recorded file can be opened and read
Readable(i) == fs[Resolve(Last(file_sizes[i].path))].access = "ok"

\* the groups of the returned report, as sets of paths
Groups ==
    IF report # <<>> /\ "duplicates" \in DOMAIN report
    THEN {{report.duplicates[g].val[k] : k \in 1..Len(report.duplicates[g].val)} :
             g \in 1..Len(report.duplicates)}
    ELSE {}

\* the i-th and the j-th recorded file are in one duplicate group
Together(i, j) ==
    \E G \in Groups : file_sizes[i].path \in G /\ file_sizes[j].path \in G

SameSizeAndContent(i, j) ==
    file_sizes[i].size = file_sizes[j].size /\ ContentOf(i) = ContentOf(j)

\* a detection pass has run to its end
DetectionReturned == ReportDone /\ include_dupes /\ ~r_raised

InSharedBucket == {i \in Recorded : \E j \in Recorded : j # i /\ file_sizes[j].size = file_sizes[i].size}

\* path p was passed to sha256_for_file
WasHashed(p) == \E k \in 1..Len(hashed) : hashed[k] = p

\* C15: a file that cannot be opened or read while it is hashed, whatever the
\* I/O error, is left out of its group and the pass runs to completion over
\* all other files and size buckets (no exception leaves detect_duplicates,
\* every file of every bucket of two or more is hashed, readable duplicates
\* are still grouped); every reported group has at least 2 members.  Stated
\* for the runs in which scan returned and the pass was started.
C15_UnreadableFileSkipped ==
    (ReportDone /\ include_dupes /\ (r_raised => hashed # <<>>)) =>
        /\ ~r_raised
        /\ \A i \in InSharedBucket : WasHashed(file_sizes[i].path)
        /\ \A i, j \in Recorded :
              (i # j /\ ~Readable(i)) => ~Together(i, j)
        /\ \A i, j \in Recorded :
              (i # j /\ Readable(i) /\ Readable(j) /\ SameSizeAndContent(i, j))
                  => Together(i, j)
        /\ \A G \in Groups : Cardinality(G) >= 2

\* C16: duplicate detection runs only when the caller opts in: with
\* include_dupes false no file is ever hashed and the returned report has no
\* duplicates entry; and a detection pass never hashes a file whose size is
\* unique among the recorded files.
C16_DetectionOnlyOnRequest ==
    /\ ~include_dupes =>
          /\ hashed = <<>>
          /\ (ReportDone /\ ~r_raised) => "duplicates" \notin DOMAIN report
    /\ \A k \in 1..Len(hashed) :
          \E i \in InSharedBucket : file_sizes[i].path = hashed[k]

\* a pass that hashes some files and leaves a file of unique size alone
C16_Witness ==
    /\ DetectionReturned
    /\ hashed # <<>>
    /\ \E i \in Recorded : i \notin InSharedBucket /\ ~WasHashed(file_sizes[i].path)

\* s is a prefix of t
IsPrefix(s, t) == Len(s) <= Len(t) /\ SubSeq(t, 1, Len(s)) = s

RECURSIVE SumOf(_)
SumOf(seq) == IF seq = <<>> THEN 0 ELSE Head(seq) + SumOf(Tail(seq))

\* the sizes of the recorded files at the positions of set S, one per file
SizesAt(S) ==
    LET chosen == SelectSeq([i \in Recorded |-> i], LAMBDA i : i \in S)
    IN [k \in 1..Len(chosen) |-> file_sizes[chosen[k]].size]

\* total size of the recorded files below directory d (given as parts), at
\* any depth
BytesBelow(d) ==
    SumOf(SizesAt({i \in Recorded :
                     LET p == PathParts(file_sizes[i].path)
                     IN Len(p) > Len(d) /\ IsPrefix(d, p)}))

\* C17: every directory that receives a size is the scan root or a directory
\* below it, and its size is the sum of the sizes of all files below it at any
\* depth; no ancestor of the root receives a size or is listed among the
\* heaviest directories.
C17_DirSizesWithinTree ==
    (r_pc \in {"built", "done"}) =>
        /\ \A k \in 1..Len(dir_sizes) :
              /\ IsPrefix(scan_root, dir_sizes[k].key)
              /\ dir_sizes[k].val = BytesBelow(dir_sizes[k].key)
        /\ report # <<>> =>
              \A k \in 1..Len(report.heaviest_directories) :
                  IsPrefix(scan_root, report.heaviest_directories[k].key)

\* str(path): the parts joined by "/"
RECURSIVE JoinParts(_)
JoinParts(parts) ==
    IF parts = <<>> THEN <<>>
    ELSE IF Len(parts) = 1 THEN parts[1]
    ELSE parts[1] \o <<"/">> \o JoinParts(Tail(parts))

PathText(P) == JoinParts(PathParts(P))

\* x comes before y in the order of the specification: greater size first,
\* then smaller path string
LargerBefore(x, y) ==
    \/ x.size > y.size
    \/ x.size = y.size /\ StrLess(PathText(x.path), PathText(y.path))

\* C18: the largest-files list holds the top_n files of greatest size in
\* descending size order, files of equal size in ascending order of their path
\* string, also at the boundary that decides which of several equal-sized
\* files is kept (stated for top_n >= 0).
C18_LargestFilesOrder ==
    (r_pc \in {"built", "done"} /\ report # <<>> /\ top_n >= 0) =>
        LET largest == report.largest_files
        IN /\ Len(largest) = Min(top_n, Len(file_sizes))
           /\ \A k \in 1..Len(largest) : \E i \in Recorded : file_sizes[i] = largest[k]
           /\ \A k \in 1..(Len(largest) - 1) : LargerBefore(largest[k], largest[k + 1])
           /\ \A i \in Recorded :
                 (\A k \in 1..Len(largest) : largest[k] # file_sizes[i]) =>
                    \A k \in 1..Len(largest) : LargerBefore(largest[k], file_sizes[i])

\* the extension keys in use
ExtKeys ==
    {ext_counter[k].key : k \in 1..Len(ext_counter)} \cup
    {ext_size[k].key : k \in 1..Len(ext_size)} \cup
    {ExtOf(fs[Last(file_sizes[i].path)].name) : i \in Recorded}

\* C19: at every point of scan and after it, for every extension key e (the
\* lower-cased suffix, or the no-extension sentinel) the count of e is the
\* number of recorded files with that extension and the byte total of e is
\* the sum of their sizes; the counts sum to the number of recorded files and
\* the byte totals to their total size.
C19_ExtensionTotals ==
    /\ \A e \in ExtKeys :
          LET with_e == {i \in Recorded : ExtOf(fs[Last(file_sizes[i].path)].name) = e}
          IN /\ e = NoExt \/ (e[1] = "." /\ Lower(e) = e)
             /\ ValueAt(ext_counter, e) = Cardinality(with_e)
             /\ ValueAt(ext_counter, e) >= 1
             /\ ValueAt(ext_size, e) = SumOf(SizesAt(with_e))
    /\ SumOf([k \in 1..Len(ext_counter) |-> ext_counter[k].val]) = Len(file_sizes)
    /\ SumOf([k \in 1..Len(ext_size) |-> ext_size[k].val])
          = SumOf([i \in Recorded |-> file_sizes[i].size])

\* a scan that recorded two files of one extension, spelled in different
\* case, and a file without extension
C19_Witness ==
    /\ ReportDone /\ ~r_raised
    /\ ValueAt(ext_counter, <<".", "a">>) = 2
    /\ ValueAt(ext_size, <<".", "a">>) = 2
    /\ ValueAt(ext_counter, NoExt) = 1
    /\ \E i, j \in Recorded :
          /\ fs[Last(file_sizes[i].path)].name = <<"a", ".", "A">>
          /\ fs[Last(file_sizes[j].path)].name = <<"b", ".", "a">>

\* a second run has returned its report
SecondReportDone == r_pc = "done" /\ ~r_raised /\ previous # NoReport

\* C23: two runs of build_report over the same unmodified set of files
\* produce identical extension_stats, largest_files, heaviest_directories
\* and most_recent_files sequences, whatever order the directory walk
\* enumerates the entries in.
C23_SameReportTwice ==
    SecondReportDone =>
        /\ report.extension_stats = previous.extension_stats
        /\ report.largest_files = previous.largest_files
        /\ report.heaviest_directories = previous.heaviest_directories
        /\ report.most_recent_files = previous.most_recent_files

\* collect_file_paths has returned its list
CollectReturned == c_pc = "done" /\ ~c_raised

\* scan (o3.py) has returned its four collections to build_report
ScanReturned == r_pc = "built"

\* C24: every scan terminates: on every finite directory tree
\* collect_file_paths and scan (o3.py) visit finitely many entries and
\* return, including with follow_symlinks true on a tree in which a
\* directory symlink points to one of its own ancestors.
C24_EveryScanReturns == <>(CollectReturned \/ ScanReturned)

\* C26: build_report returns a complete report whenever the root exists,
\* even if a file that scan() recorded is deleted or becomes unreadable
\* before the most-recent-files ranking stats it again: an entry that turns
\* inaccessible at any point of the run never aborts the report.
C26_InaccessibleNeverAborts ==
    (ReportDone /\ \A m \in Nodes : fs[m].access \in {"ok", "nostat"})
        => /\ ~r_raised
           /\ report # NoReport

(***************************************************************************)
(* Properties of scan_directory (grok.py).                                 *)
(***************************************************************************)
GrokDone == g_pc = "done"

\* the entries the walk met: the entries of the directories it listed
EntriesMet ==
    {P \in {Append(root, e) : root \in visited_dirs, e \in Nodes} :
        TreeParent[Last(P)] = Resolve(P[Len(P) - 1])}

\* the records of file_data for path P
RecordsOf(P) == {k \in 1..Len(file_data) : file_data[k].path = P}

\* C13: when stat-ing an entry fails during scan_directory, the scan
\* continues over all remaining entries (every entry met whose stat succeeds
\* has its record) and the failing entry, file or directory, is in the
\* returned file_data as a record marked inaccessible with a non-empty error
\* string.
C13_InaccessibleRecorded ==
    GrokDone =>
        \A P \in EntriesMet :
            /\ Cardinality(RecordsOf(P)) = 1
            /\ \A k \in RecordsOf(P) :
                  IF StatOutcome(P) = "ok"
                  THEN "error" \notin DOMAIN file_data[k]
                  ELSE /\ "error" \in DOMAIN file_data[k]
                       /\ file_data[k].error # ""
                       /\ file_data[k].extension = DotError

GrokAnalysed == g_pc = "analysed"

\* the records of file_data analyze_file_data counts: those of non-directories
CountedRecords == {k \in 1..Len(file_data) : ~file_data[k].is_dir}

\* the path separators between the scan root and the path of record k
SeparatorsBelowRoot(k) == Len(file_data[k].path) - 1

\* C21: the depth under which analyze_file_data counts a record in its
\* depth distribution is the number of path separators between the scan
\* root and the record's path (root = 0): whatever the absolute path of the
\* root, the distribution holds under each depth d the number of counted
\* records that lie d separators below the root.
C21_DepthFromRoot ==
    GrokAnalysed =>
        \A d \in 0..(Len(TreeParent) + MaxAbove + 2) :
            ValueAt(analysis.depth_distribution, d) =
                Cardinality({k \in CountedRecords : SeparatorsBelowRoot(k) = d})

\* C22: after scan_directory, file_count + dir_count is the number of
\* filesystem entries the walk visited and the number of records in
\* file_data, also when some entries could not be stat-ed.
C22_CountsEqualEntries ==
    GrokDone =>
        /\ file_count + dir_count = Cardinality(EntriesMet)
        /\ file_count + dir_count = Len(file_data)

(***************************************************************************)
(* Properties of scan_directory (4o.py).                                   *)
(***************************************************************************)
AuditDone == a_pc = "done"

\* the real directories below the base path, as paths (links are not
\* directories for this scanner)
RECURSIVE PathTo(_)
PathTo(n) == IF n = start_path THEN <<n>> ELSE Append(PathTo(TreeParent[n]), n)

RECURSIVE IsBelowBase(_)
IsBelowBase(n) ==
    /\ n # NoNode
    /\ \/ n = start_path
       \/ /\ IsBelowBase(TreeParent[n])
          /\ fs[TreeParent[n]].kind = "dir"

DirsBelowBase == {PathTo(n) : n \in {m \in Nodes : IsBelowBase(m) /\ fs[m].kind = "dir"}}

\* C20: with max_depth set, scan_directory lists no directory whose depth
\* (base path = 0) exceeds max_depth, does not count or record any directory
\* whose depth exceeds max_depth nor any file inside such a directory, and
\* counts (and records) every directory below the base path at depth
\* <= max_depth.
C20_NothingBeyondMaxDepth ==
    AuditDone =>
        /\ \A P \in listed : DepthOf(P) <= max_depth
        /\ \A P \in directory_tree : DepthOf(P) <= max_depth
        /\ total_dirs = Cardinality({P \in DirsBelowBase :
                                        DepthOf(P) >= 1 /\ DepthOf(P) <= max_depth})
        /\ \A k \in 1..Len(largest_files) : DepthOf(largest_files[k][2]) - 1 <= max_depth
        /\ \A P \in DirsBelowBase :
              (DepthOf(P) >= 1 /\ DepthOf(P) <= max_depth) => P \in directory_tree

(***************************************************************************)
(* Properties of ai_code_parallel_with_claude_code.                        *)
(***************************************************************************)
ParallelDone == p_pc = "done"

\* the positions of result_str at which a section begins
SectionStarts == {k \in 1..Len(result_str) : result_str[k] = SectionOpen}

\* the position at which the i-th section begins
SectionStart(i) ==
    CHOOSE k \in SectionStarts :
        Cardinality({j \in SectionStarts : j < k}) = i - 1

\* what the i-th section holds below its title line
SectionBody(i) ==
    LET later == {k \in SectionStarts : k > SectionStart(i)}
        end == IF later = {} THEN Len(result_str)
               ELSE (CHOOSE k \in later : \A j \in later : k <= j) - 1
    IN SubSeq(result_str, SectionStart(i) + 3, end)

\* body tells how the subprocess of a prompt ended: its output when it
\* succeeded, an error text with what it wrote to stderr, with its return
\* code or with the exception otherwise
TellsOutcome(body, exit) ==
    IF exit \in Raised
    THEN body = <<[text |-> "Unexpected error running Claude Code: "],
                  [text |-> exit.raised]>>
    ELSE IF exit.returncode = 0 THEN body = <<[text |-> exit.stdout]>>
    ELSE /\ body[1] = [text |-> "Error executing Claude Code: "]
         /\ body[Len(body)] = IF exit.stderr # "" THEN [text |-> exit.stderr]
                               ELSE [number |-> exit.returncode]

\* C27: ai_code_parallel_with_claude_code returns exactly one result section
\* per input prompt, section i holding the outcome of prompt i, in the order
\* of the input prompts whatever order the subprocesses finish in; a prompt
\* whose subprocess fails or raises yields an error text in its own section
\* and neither cancels nor drops the results of the other prompts.
C27_OneSectionPerPrompt ==
    ParallelDone =>
        /\ Cardinality(SectionStarts) = Len(ai_coding_prompts)
        /\ Len(tasks) = Len(ai_coding_prompts)
        /\ \A i \in 1..Len(ai_coding_prompts) :
              /\ tasks[i].prompt = ai_coding_prompts[i]
              /\ tasks[i].state = "finished"
              /\ result_str[SectionStart(i) + 1] = [number |-> i]
              /\ TellsOutcome(SectionBody(i), tasks[i].exit)

\* three prompts have been run; the last finished first, one subprocess
\* failed, one raised and one succeeded
C27_Witness ==
    /\ ParallelDone
    /\ Len(ai_coding_prompts) = 3
    /\ finish_order[1] = 3
    /\ \E i \in 1..3 : tasks[i].exit \in Raised
    /\ \E i \in 1..3 : tasks[i].exit \in Exits /\ tasks[i].exit.returncode # 0
    /\ \E i \in 1..3 : tasks[i].exit \in Exits /\ tasks[i].exit.returncode = 0

(***************************************************************************)
(* Properties of the voice assistant.                                      *)
(***************************************************************************)
\* the subprocess calls made for the initial prompt: the latest request of
\* the call is the prompt, with or without the trigger word main puts in
\* front
CallsForInitialPrompt ==
    {k \in 1..Len(claude_calls) :
        claude_calls[k][Len(claude_calls[k])].content
            \in {args_prompt, <<TRIGGER_WORDS[1]>> \o args_prompt}}

\* C28: in a run started with an initial prompt, the prompt is sent to
\* Claude Code at most once: at most one claude subprocess is started with
\* the prompt as its latest request.
C28_InitialPromptOnce ==
    args_prompt # <<>> => Cardinality(CallsForInitialPrompt) <= 1

\* the entries added since the assistant was constructed
AddedSinceStart ==
    SubSeq(conversation_history, Len(resumed) + 1, Len(conversation_history))

Alternates(entries) ==
    /\ Len(entries) % 2 = 0
    /\ \A k \in 1..Len(entries) :
        entries[k].role = IF k % 2 = 1 THEN "user" ELSE "assistant"

\* C29: whenever process_message is not running, the entries added since
\* the start alternate user, assistant, and the saved conversation file
\* holds exactly the history in memory.
C29_HistoryPairedAndSaved ==
    /\ Alternates(AddedSinceStart)
    /\ YamlLoad(conversation_file) = conversation_history

(***************************************************************************)
(* Properties of the task converter.                                       *)
(***************************************************************************)
ConverterUpdated == t_pc = "updated"

\* the display ids of the tasks and subtasks of a task list, and the status
\* of each
DisplayIds(task_list) ==
    {IdText(k) : k \in 1..Len(task_list)}
    \cup UNION {{IdText(k) \o <<".">> \o IdText(j) :
                    j \in 1..Len(task_list[k].subtasks)} : k \in 1..Len(task_list)}
StatusAt(task_list, display_id) ==
    IF Len(display_id) = 1 THEN task_list[IntOf(display_id)].status
    ELSE task_list[IntOf(<<display_id[1]>>)].subtasks[IntOf(<<display_id[3]>>)].status

\* C30: after generate_markdown and update_tasks_json_from_markdown, every
\* task and subtask whose checkbox the user did not edit has the status it
\* had, and with no edit at all no change is detected and tasks.json is not
\* rewritten.
C30_RoundTripKeepsStatus ==
    ConverterUpdated =>
        /\ \A d \in DisplayIds(source_data) \ edited :
            StatusAt(tasks_data, d) = StatusAt(source_data, d)
        /\ edited = {} => ~changes_made /\ ~json_written

====
